---- MODULE Spec2Model ----
(***************************************************************************)
(* kanonic: the per-call execution pipeline of a client built by createApi *)
(* (packages/kanonic/src/core.ts, utils.ts).  One endpoint function call  *)
(* is a sequential chain of suspension points: validation, plugin init,   *)
(* attempts (onRequest, transport, onResponse, response handler), the     *)
(* retry loop (shouldRetry, onRetry, sleep) and the terminal hooks.       *)
(***************************************************************************)
EXTENDS Integers, Sequences, FiniteSets, TLC

\* ------------------------------------------------------------------ bounds
MaxPlugins == 2
MaxTimes == 2

\* ------------------------------------------------------------ error kinds
RetriableTags == {"FetchError", "ApiError"}
TerminalTags == {"ParseError", "OutputValidationError"}

\* ------------------------------------------------------------------ values
\* Every value that flows through hooks and results has the same shape.
Val(type, tag, n, by, status) ==
  [type |-> type, tag |-> tag, n |-> n, by |-> by, status |-> status, msg |-> ""]

Undefined == Val("undefined", "", 0, 0, 0)

\* new XError(...) built during attempt n
Error(tag, n) == Val("error", tag, n, 0, 0)

\* new Response(): the placeholder lastResponse starts from
PlaceholderResponse == Val("response", "placeholder", 0, 0, 200)

\* new InputValidationError({message})
InputValidationError(message) ==
  [Error("InputValidationError", 0) EXCEPT !.msg = message]

ResultOk(v) == [ok |-> TRUE, v |-> v]
ResultErr(e) == [ok |-> FALSE, v |-> e]
NoResult == [ok |-> FALSE, v |-> Undefined]

\* ------------------------------------------------------------- endpoints
\* An endpoint descriptor: which schemas it declares.  A GET endpoint has
\* no input schema (GetEndpoint).
Endpoint(method, input, params, query, stream) ==
  [method |-> method, input |-> input, params |-> params, query |-> query,
   stream |-> stream]

GetPlain == Endpoint("GET", FALSE, FALSE, FALSE, FALSE)
PostFull == Endpoint("POST", TRUE, TRUE, TRUE, FALSE)
PostInput == Endpoint("POST", TRUE, FALSE, FALSE, FALSE)
PostStream == Endpoint("POST", TRUE, FALSE, FALSE, TRUE)

\* The clients the calls are made on: createApi({endpoints, validateInput,
\* validateOutput}), both flags defaulting to true.
Client(ep, vInput, vOutput) ==
  [endpoint |-> ep, validateInput |-> vInput, validateOutput |-> vOutput]

Clients == { Client(GetPlain, TRUE, TRUE), Client(PostFull, TRUE, TRUE),
             Client(PostInput, FALSE, FALSE), Client(PostStream, TRUE, TRUE) }

\* The values a caller supplies, by whether each passes its schema; a value
\* is supplied only for a schema the endpoint declares (EndpointOptions).
SchemaOptions(ep) ==
  { so \in [input : BOOLEAN, params : BOOLEAN, query : BOOLEAN] :
      /\ (~ep.input => so.input)
      /\ (~ep.params => so.params)
      /\ (~ep.query => so.query) }

\* validateSchemaOptions without the query check
validateSchemaOptions_noQuery(ep, so, vInput) ==
  IF vInput /\ ep.method # "GET" /\ ep.input /\ ~so.input THEN "Invalid input"
  ELSE IF vInput /\ ep.params /\ ~so.params THEN "Invalid params"
  ELSE "ok"

\* validateSchemaOptions with the params check ahead of the input check
validateSchemaOptions_paramsFirst(ep, so, vInput) ==
  IF vInput /\ ep.params /\ ~so.params THEN "Invalid params"
  ELSE IF vInput /\ ep.method # "GET" /\ ep.input /\ ~so.input THEN "Invalid input"
  ELSE IF vInput /\ ep.query /\ ~so.query THEN "Invalid query"
  ELSE "ok"

\* validateSchemaOptions: "ok" or the message of the InputValidationError
\* of the first failing check (input, then params, then query).
validateSchemaOptions(ep, so, vInput) ==
  IF vInput /\ ep.method # "GET" /\ ep.input /\ ~so.input THEN "Invalid input"
  ELSE IF vInput /\ ep.params /\ ~so.params THEN "Invalid params"
  ELSE IF vInput /\ ep.query /\ ~so.query THEN "Invalid query"
  ELSE "ok"

\* --------------------------------------------------------------- plugins
\* The plugins a client is built with:
\*   timing   the example timingPlugin: init stamps the options, onRequest
\*            returns {...ctx, _attemptStart}, no onRetry hook
\*   mutator  writes ctx.headers in place in onRequest, gives the options a
\*            new header object in init, replaces the response; no observers
\*   faulty   defines every member; its init, onRequest and onResponse
\*            either return their argument as it is or throw
\* An onSuccess, onError or onRetry hook of any plugin may throw.
PluginKinds == {"timing", "mutator", "faulty"}

\* plugin.init / plugin.hooks?.[member] is defined
Has(kind, member) ==
  CASE kind = "timing" -> member \in {"init", "onRequest", "onResponse",
                                      "onSuccess", "onError"}
    [] kind = "mutator" -> member \in {"init", "onRequest", "onResponse"}
    [] OTHER -> TRUE

PluginLists == UNION { [1..n -> PluginKinds] : n \in 0..MaxPlugins }

\* ---------------------------------------------------------- retry policy
DelayMs == 100

\* the per-call `retry` option: absent, or a RetryOptions object whose
\* shouldRetry is either left undefined or a caller predicate
NoRetry == [present |-> FALSE, times |-> 0, delayMs |-> 0,
            backoff |-> "constant", shouldRetry |-> "undefined"]
Retry(times, shouldRetry) ==
  [present |-> TRUE, times |-> times, delayMs |-> DelayMs,
   backoff |-> "exponential", shouldRetry |-> shouldRetry]
RetryPolicies ==
  {NoRetry} \cup { Retry(n, "fn") : n \in -1..MaxTimes } \cup {Retry(1, "undefined")}

RECURSIVE Pow2(_)
Pow2(n) == IF n <= 0 THEN 1 ELSE 2 * Pow2(n - 1)

\* every strategy computed as the linear one
getRetryDelay_linear(r, attemptIndex) == r.delayMs * (attemptIndex + 1)

getRetryDelay(r, attemptIndex) ==
  CASE r.backoff = "linear" -> r.delayMs * (attemptIndex + 1)
    [] r.backoff = "exponential" -> r.delayMs * Pow2(attemptIndex)
    [] OTHER -> r.delayMs

\* -------------------------------------------------------- request context
\* A header map is a set of entries with distinct names; p and n say which
\* plugin wrote the entry during which attempt (0: the option merge).
Entry(name, v, p, n) == [name |-> name, v |-> v, p |-> p, n |-> n]
Put(map, e) == {x \in map : x.name # e.name} \cup {e}

\* { ...target, ...source }: the keys of source replace those of target; a
\* key is a property name, compared as a string
Spread(target, source) ==
  {x \in target : \A y \in source : y.name # x.name} \cup source

\* the request options of the three scopes and the auth header, headers
\* taken apart from the other options as createApi and buildEndpointFn do
Options(auth, gHeaders, eHeaders, cHeaders, gRest, eRest, cRest) ==
  [authHeader |-> auth, globalHeaders |-> gHeaders,
   endpointHeaders |-> eHeaders, callHeaders |-> cHeaders,
   globalRestOptions |-> gRest, endpointRestOptions |-> eRest,
   callRestOptions |-> cRest]

NoOptions == Options({}, {}, {}, {}, {}, {}, {})

\* a layer that sets the given names, each to a value naming the layer
Layer(label, names) == {Entry(nm, label, 0, 0) : nm \in names}

\* an endpoint descriptor whose requestOptions carry a retry object
EndpointRetry ==
  Options({}, {}, {}, {}, {}, Layer("endpoint", {"retry"}), {})

\* the option layers of the clients calls are made on
ClientOptions(c) ==
  IF c.endpoint.method = "GET" THEN {NoOptions, EndpointRetry} ELSE {NoOptions}

\* { ...authHeader, ...globalHeaders, ...endpointHeaders, ...callHeaders,
\*   "Content-Type": "application/json" }
mergeHeaders(auth, gHeaders, eHeaders, cHeaders) ==
  Put(Spread(Spread(Spread(auth, gHeaders), eHeaders), cHeaders),
      Entry("Content-Type", "application/json", 0, 0))

\* { ...globalRestOptions, ...endpointRestOptions, ...callRestOptions }
mergeRestOptions(gRest, eRest, cRest) == Spread(Spread(gRest, eRest), cRest)

\* a field added to the options / context object by plugin p
Field(by, p, n) == [by |-> by, p |-> p, n |-> n]

\* A context object: headers is a reference into the heap of header maps.
Ctx(url, method, hdr, body, extra) ==
  [url |-> url, method |-> method, hdr |-> hdr, body |-> body, extra |-> extra]

NoCtx == Ctx("", "", 0, "", {})

\* the context with its header reference followed
Deref(c, h) ==
  [url |-> c.url, method |-> c.method,
   headers |-> IF c.hdr \in 1..Len(h) THEN h[c.hdr] ELSE {},
   body |-> c.body, extra |-> c.extra]

\* ------------------------------------------------------------------ state
VARIABLES
  plugins,        \* createApi({plugins})
  endpoint,       \* the endpoint descriptor the function was built for
  validateInput,  \* createApi({validateInput})
  validateOutput, \* createApi({validateOutput})
  requestOptions, \* the auth header and the request options of every scope
  errorSchema,    \* createApi({errorSchema}) is set
  shouldValidateError, \* createApi({shouldValidateError}): unset or a predicate
  pc,             \* position of the call
  schemaOptions,  \* what the caller passed (validity of input/params/query)
  retry,          \* callRequestOptions.retry
  current,        \* runPluginInit's `current` ({url, options}) as a context
  stableCtx,      \* the stable per-call context
  initSnapshot,   \* the value of the init chain's output when it finished
  ctx,            \* runOnRequest's `current` / the attempt's ctx
  heap,           \* header map objects, by reference
  response,       \* runOnResponse's `current`
  lastResponse,   \* lastResponse
  lastResult,     \* executeWithPluginRetry's lastResult / finalResult
  i,              \* the retry loop counter
  pi,             \* index of the plugin the running runner is at
  attempts,       \* number of attempt() invocations
  fetchCalls,     \* number of transport (fetch) invocations
  log,            \* hooks, predicate calls and sleeps, in order
  thrown,         \* the hooks (kind, plugin) that have thrown so far
  result          \* what the endpoint function resolved to

\* handleStreamResponse: the state of one streamed response
VARIABLES
  outputSchema,   \* endpoint.output: unset or a schema
  body,           \* response.body: the whole text the transport delivers
  chunks,         \* the transport chunks not yet delivered
  reader,         \* response.body.getReader(): the byte reader
  buffer,         \* let buffer
  stream,         \* new ReadableStream: the stream and its controller
  consumer        \* the caller reading the stream

streaming == <<outputSchema, body, chunks, reader, buffer, stream, consumer>>

\* calls in flight on one client, and the variables of each invocation
VARIABLES
  calls,          \* per call: its arguments, position and what it returned
  frames          \* per invocation of the endpoint function: its let/const

concurrent == <<calls, frames>>

\* buildUrl on its own
VARIABLES
  urlArgs,        \* {path, params, query}
  resolvedUrl     \* what buildUrl returned

resolution == <<urlArgs, resolvedUrl>>

\* the AbortSignal the caller passed in the per-call options
VARIABLES
  signal          \* whether one was passed, whether it is aborted, and the
                  \* number of transport calls made when it was aborted

\* the run of executeWithPluginRetry that a run of withRetry is compared with
VARIABLES
  previous        \* {done, attempts, log, result} of the finished run

\* what a call of the pipeline above does not touch
aside == <<streaming, concurrent, resolution, signal, previous>>

vars == <<plugins, endpoint, validateInput, validateOutput, requestOptions,
          errorSchema, shouldValidateError, pc, schemaOptions,
          retry, current, stableCtx, initSnapshot, ctx, heap, response,
          lastResponse, lastResult, i, pi, attempts, fetchCalls, log, thrown,
          result, aside>>

\* no byte reader acquired, no stream constructed, nobody reading
NoReader == [acquired |-> FALSE, reads |-> 0, inflight |-> 0,
             cancelled |-> FALSE]
NoStream == [state |-> "none", queue |-> <<>>, readRequests |-> 0,
             pulling |-> FALSE, pullAgain |-> FALSE,
             closeRequested |-> FALSE, settled |-> FALSE]
NoConsumer == [reads |-> 0, delivered |-> <<>>, done |-> FALSE,
               cancelled |-> FALSE, atCancel |-> <<>>]

StreamingIdle ==
  /\ outputSchema = "undefined"
  /\ body = <<>>
  /\ chunks = <<>>
  /\ reader = NoReader
  /\ buffer = <<>>
  /\ stream = NoStream
  /\ consumer = NoConsumer

ConcurrentIdle == calls = <<>> /\ frames = <<>>

ResolutionIdle == urlArgs = <<>> /\ resolvedUrl = <<>>

NoSignal == [passed |-> FALSE, aborted |-> FALSE, at |-> 0]

SignalIdle == signal = NoSignal

NoRun == [done |-> FALSE, attempts |-> 0, log |-> <<>>, result |-> NoResult]

PreviousIdle == previous = NoRun

AsideIdle ==
  StreamingIdle /\ ConcurrentIdle /\ ResolutionIdle /\ SignalIdle /\ PreviousIdle

client == <<plugins, endpoint, validateInput, validateOutput, requestOptions,
            errorSchema, shouldValidateError>>

\* one entry of the log
Event(kind, p, n, a2, a3, ms) ==
  [kind |-> kind, plugin |-> p, attempt |-> n, a2 |-> a2, a3 |-> a3, ms |-> ms]

\* the entry of an observer hook (onRetry, onSuccess, onError): c is the
\* context object it is handed
ObserverEvent(kind, p, n, c, a2, a3) ==
  [kind |-> kind, plugin |-> p, attempt |-> n, a2 |-> a2, a3 |-> a3, ms |-> 0,
   ctx |-> c]

\* createApi: the client is built, no call has been made
Init ==
  /\ plugins \in PluginLists
  /\ \E c \in Clients :
       /\ endpoint = c.endpoint
       /\ validateInput = c.validateInput
       /\ validateOutput = c.validateOutput
       /\ requestOptions \in ClientOptions(c)
  /\ errorSchema = FALSE
  /\ shouldValidateError = "undefined"
  /\ pc = "idle"
  /\ schemaOptions = [input |-> TRUE, params |-> TRUE, query |-> TRUE]
  /\ retry = NoRetry
  /\ current = NoCtx
  /\ stableCtx = NoCtx
  /\ initSnapshot = Deref(NoCtx, <<>>)
  /\ ctx = NoCtx
  /\ heap = <<>>
  /\ response = Undefined
  /\ lastResponse = Undefined
  /\ lastResult = NoResult
  /\ i = 0
  /\ pi = 0
  /\ attempts = 0
  /\ fetchCalls = 0
  /\ log = <<>>
  /\ thrown = {}
  /\ result = NoResult
  /\ AsideIdle

\* ------------------------------------------------------------ the call
Hook(kind, p) == [kind |-> kind, plugin |-> p]

\* What a plugin's init does with {url, options}.
InitBehaviours(kind) ==
  CASE kind = "timing" -> {"addField"}
    [] kind = "mutator" -> {"setHeader"}
    [] OTHER -> {"keep", "throw"}

\* What a plugin's onRequest does with the context it receives.
OnRequestBehaviours(kind) ==
  CASE kind = "timing" -> {"addField"}
    [] kind = "mutator" -> {"mutateHeaders"}
    [] OTHER -> {"keep", "throw"}

\* What a plugin's onResponse does with the response it receives.
OnResponseBehaviours(kind) ==
  CASE kind = "mutator" -> {"replace"}
    [] kind = "faulty" -> {"keep", "throw"}
    [] OTHER -> {"keep"}

\* What the transport may answer: it throws, or a response of one of these
\* kinds (status and body).
ResponseKinds == {"okValid", "okMismatch", "okNotJson", "okNoBody",
                  "unreadable", "errStatus", "errUnreadable"}

StatusOf(kind) == IF kind \in {"errStatus", "errUnreadable"} THEN 500 ELSE 200

\* attempt(): const ctx = await runOnRequest(plugins, { ...stableCtx })
attempt(sc) ==
  /\ ctx' = sc
  /\ attempts' = attempts + 1
  /\ pi' = 1
  /\ pc' = "onRequest"

\* mergedRestOptions and mergedHeaders of the call
mergedRestOptions ==
  mergeRestOptions(requestOptions.globalRestOptions,
                   requestOptions.endpointRestOptions,
                   requestOptions.callRestOptions)

mergedHeaders ==
  mergeHeaders(requestOptions.authHeader, requestOptions.globalHeaders,
               requestOptions.endpointHeaders, requestOptions.callHeaders)

\* runPluginInit(plugins, resolvedUrl, {method, headers: mergedHeaders, body,
\* ...mergedRestOptions}): the pair the init chain starts from, as a context
\* whose headers are the first object of the heap
initArgs(ep, rest) ==
  Ctx("resolved", ep.method, 1,
      IF ep.method = "GET" THEN "undefined" ELSE "json", rest)

\* The endpoint function is called: validation, URL and option merge.
Invoke ==
  /\ pc = "idle"
  /\ \E so \in SchemaOptions(endpoint), r \in RetryPolicies :
       LET v == validateSchemaOptions(endpoint, so, validateInput) IN
       /\ schemaOptions' = so
       /\ retry' = r
       /\ IF v # "ok"
          THEN /\ result' = ResultErr(InputValidationError(v))
               /\ pc' = "done"
               /\ UNCHANGED <<current, heap, pi>>
          ELSE /\ current' = initArgs(endpoint, mergedRestOptions)
               /\ heap' = <<mergedHeaders>>
               /\ pi' = 1
               /\ pc' = "init"
               /\ UNCHANGED result
  /\ UNCHANGED <<aside, client, stableCtx, initSnapshot, ctx, response, lastResponse,
                 lastResult, i, attempts, fetchCalls, log, thrown>>

\* every init is handed the pair the chain started from
initInput_unthreaded(cur, first) == first

\* plugin.init(current.url, current.options): what a plugin's init receives
initInput(cur, first) == cur

\* runPluginInit: one iteration of the loop over plugins.
PluginInit ==
  /\ pc = "init"
  /\ pi <= Len(plugins)
  /\ IF Has(plugins[pi], "init")
     THEN \E b \in InitBehaviours(plugins[pi]) :
            LET arg == initInput(current, initArgs(endpoint, mergedRestOptions)) IN
            /\ CASE b = "keep" ->
                      /\ current' = arg
                      /\ UNCHANGED heap
                      /\ pc' = pc /\ pi' = pi + 1
                 [] b = "addField" ->
                      /\ current' = [arg EXCEPT
                                       !.extra = @ \cup {Field("init", pi, 0)}]
                      /\ UNCHANGED heap
                      /\ pc' = pc /\ pi' = pi + 1
                 [] b = "setHeader" ->
                      /\ heap' = Append(heap, Put(heap[arg.hdr],
                                                  Entry("x-init", "set", pi, 0)))
                      /\ current' = [arg EXCEPT !.hdr = Len(heap) + 1]
                      /\ pc' = pc /\ pi' = pi + 1
                 [] OTHER ->
                      /\ pc' = "rejected"
                      /\ UNCHANGED <<current, heap, pi>>
            /\ log' = Append(log, Event("init", pi, 0, Deref(arg, heap),
                                        IF b = "throw" THEN Undefined
                                        ELSE Deref(current', heap'), 0))
            /\ thrown' = IF b = "throw" THEN thrown \cup {Hook("init", pi)}
                         ELSE thrown
     ELSE /\ pi' = pi + 1
          /\ UNCHANGED <<current, heap, log, pc, thrown>>
  /\ UNCHANGED <<aside, client, schemaOptions, retry, stableCtx, initSnapshot, ctx,
                 response, lastResponse, lastResult, i, attempts, fetchCalls,
                 result>>

\* The init chain is over: the stable context is built, lastResponse starts
\* as a placeholder and the first attempt begins (directly, or as the first
\* statement of executeWithPluginRetry).
InitDone ==
  /\ pc = "init"
  /\ pi > Len(plugins)
  /\ stableCtx' = current
  /\ initSnapshot' = Deref(current, heap)
  /\ lastResponse' = PlaceholderResponse
  /\ i' = 0
  /\ attempt(current)
  /\ UNCHANGED <<aside, client, schemaOptions, retry, current, heap, response,
                 lastResult, fetchCalls, log, thrown, result>>

\* runOnRequest: one iteration of the loop over plugins.
OnRequest ==
  /\ pc = "onRequest"
  /\ pi <= Len(plugins)
  /\ IF Has(plugins[pi], "onRequest")
     THEN \E b \in OnRequestBehaviours(plugins[pi]) :
            /\ CASE b = "keep" ->
                      /\ UNCHANGED <<ctx, heap>>
                      /\ pc' = pc /\ pi' = pi + 1
                 [] b = "addField" ->
                      /\ ctx' = [ctx EXCEPT
                                   !.extra = @ \cup {Field("onRequest", pi, attempts)}]
                      /\ UNCHANGED heap
                      /\ pc' = pc /\ pi' = pi + 1
                 [] b = "mutateHeaders" ->
                      /\ heap' = [heap EXCEPT ![ctx.hdr] =
                                    Put(@, Entry("x-attempt", "set", pi, attempts))]
                      /\ UNCHANGED ctx
                      /\ pc' = pc /\ pi' = pi + 1
                 [] OTHER ->
                      /\ pc' = "rejected"
                      /\ UNCHANGED <<ctx, heap, pi>>
            /\ log' = Append(log, Event("onRequest", pi, attempts,
                                        Deref(ctx, heap),
                                        IF b = "throw" THEN Undefined
                                        ELSE Deref(ctx', heap'), 0))
            /\ thrown' = IF b = "throw" THEN thrown \cup {Hook("onRequest", pi)}
                         ELSE thrown
     ELSE /\ pi' = pi + 1
          /\ UNCHANGED <<ctx, heap, log, pc, thrown>>
  /\ UNCHANGED <<aside, client, schemaOptions, retry, current, stableCtx, initSnapshot,
                 response, lastResponse, lastResult, i, attempts, fetchCalls,
                 result>>

\* ------------------------------------------------------- response handler
\* the value a success carries, read from response r
Data(tag, r) == Val("data", tag, r.n, r.by, r.status)

\* shouldValidateError(statusCode) for the predicates a client may be given:
\* validateAllErrors, validateClientErrors
ShouldValidate(predicate, statusCode) ==
  CASE predicate = "validateAllErrors" -> TRUE
    [] predicate = "validateClientErrors" -> statusCode >= 400 /\ statusCode < 500
    [] OTHER -> FALSE

\* what a body text is: JSON or not, and which schema its value passes
IsJson(text) ==
  text \in {"okValid", "okMismatch", "errJson", "errJsonMismatch"}
MatchesOutput(text) == text = "okValid"
MatchesError(text) == text = "errJson"

\* the error body is parsed whenever a schema is configured
parseErrorResponse_eager(text, statusCode, schema, predicate) ==
  [statusCode |-> statusCode, text |-> text,
   data |-> IF schema /\ IsJson(text) /\ MatchesError(text)
            THEN "parsed" ELSE "undefined"]

\* the parsed JSON value is not checked against the schema
parseErrorResponse_unvalidated(text, statusCode, schema, predicate) ==
  [statusCode |-> statusCode, text |-> text,
   data |-> IF schema /\ predicate # "undefined"
               /\ ShouldValidate(predicate, statusCode) /\ IsJson(text)
            THEN "parsed" ELSE "undefined"]

\* parseErrorResponse(text, statusCode, errorSchema, shouldValidateError):
\* the fields of the ApiError it builds
parseErrorResponse(text, statusCode, schema, predicate) ==
  [statusCode |-> statusCode, text |-> text,
   data |-> IF ~schema THEN "undefined"
            ELSE IF ~(predicate # "undefined" /\ ShouldValidate(predicate, statusCode))
            THEN "undefined"
            ELSE IF ~IsJson(text) THEN "undefined"
            ELSE IF MatchesError(text) THEN "parsed"
            ELSE "undefined"]

\* Result.err(parseErrorResponse(text, response.status, errorSchema,
\* shouldValidateError)) for response r
ApiErrorOf(r) ==
  LET e == parseErrorResponse(r.tag, r.status, errorSchema, shouldValidateError)
  IN [type |-> "error", tag |-> "ApiError", n |-> r.n, by |-> r.by,
      status |-> e.statusCode, msg |-> "", text |-> e.text, data |-> e.data]

TextFails(r) == r.tag \in {"unreadable", "errUnreadable"}
ResponseOk(r) == r.status >= 200 /\ r.status <= 299

\* the order of the JSON parse and of the status test exchanged
handleJsonResponse_parseFirst(r, vOutput) ==
  IF TextFails(r) THEN ResultErr(Error("ParseError", r.n))
  ELSE IF ~IsJson(r.tag) THEN ResultErr(Error("ParseError", r.n))
  ELSE IF ~ResponseOk(r) THEN ResultErr(ApiErrorOf(r))
  ELSE IF ~vOutput THEN ResultOk(Data("parsed", r))
  ELSE IF ~MatchesOutput(r.tag)
  THEN ResultErr(Error("OutputValidationError", r.n))
  ELSE ResultOk(Data("validated", r))

handleJsonResponse(r, vOutput) ==
  IF TextFails(r) THEN ResultErr(Error("ParseError", r.n))
  ELSE IF ~ResponseOk(r) THEN ResultErr(ApiErrorOf(r))
  ELSE IF ~IsJson(r.tag) THEN ResultErr(Error("ParseError", r.n))
  ELSE IF ~vOutput THEN ResultOk(Data("parsed", r))
  ELSE IF ~MatchesOutput(r.tag)
  THEN ResultErr(Error("OutputValidationError", r.n))
  ELSE ResultOk(Data("validated", r))

handleStreamResponse(r, vOutput) ==
  IF ~ResponseOk(r)
  THEN IF TextFails(r) THEN ResultErr(Error("ParseError", r.n))
       ELSE ResultErr(ApiErrorOf(r))
  ELSE IF r.tag = "okNoBody" THEN ResultErr(Error("ParseError", r.n))
  ELSE ResultOk(Data("stream", r))

\* the transport call is built from the stable context
fetchInit_stable(c, sc) == sc

\* safeFetch(ctx.url, {method: ctx.method, headers: ctx.headers, body:
\* ctx.body, ...rest of ctx}): the context the transport call is built from
fetchInit(c, sc) == c

\* the per-call option that carries the signal through the merge and the
\* context to the transport
SignalOption == Entry("signal", "call", 0, 0)

\* fetch(url, init) rejects when init.signal is aborted
Aborted(c) == signal.aborted /\ SignalOption \in c.extra

\* the attempt goes on to the onResponse hooks whatever the transport did
afterFetch_noReturn(isErr) == "onResponse"

\* if (fetchResult.isErr()) return Result.err(fetchResult.error): where the
\* attempt goes after the transport call
afterFetch(isErr) == IF isErr THEN "attempted" ELSE "onResponse"

\* safeFetch: the context after onRequest goes to the transport, which
\* throws (FetchError) or answers.
Fetch ==
  /\ pc = "onRequest"
  /\ pi > Len(plugins)
  /\ fetchCalls' = fetchCalls + 1
  /\ \/ /\ lastResult' = ResultErr(Error("FetchError", attempts))
        /\ log' = Append(log, Event("fetch", 0, attempts,
                                    Error("FetchError", attempts),
                                    Deref(fetchInit(ctx, stableCtx), heap), 0))
        /\ pc' = afterFetch(TRUE)
        /\ ctx' = NoCtx
        /\ UNCHANGED <<response, pi>>
     \/ \E kind \in ResponseKinds :
          /\ ~Aborted(fetchInit(ctx, stableCtx))
          /\ response' = Val("response", kind, attempts, 0, StatusOf(kind))
          /\ log' = Append(log, Event("fetch", 0, attempts, response',
                                      Deref(fetchInit(ctx, stableCtx), heap), 0))
          /\ pi' = 1
          /\ pc' = afterFetch(FALSE)
          /\ UNCHANGED <<lastResult, ctx>>
  /\ UNCHANGED <<aside, client, schemaOptions, retry, current, stableCtx, initSnapshot,
                 heap, lastResponse, i, attempts, thrown, result>>

\* runOnResponse: one iteration of the loop over plugins.
OnResponse ==
  /\ pc = "onResponse"
  /\ pi <= Len(plugins)
  /\ IF Has(plugins[pi], "onResponse")
     THEN \E b \in OnResponseBehaviours(plugins[pi]) :
            /\ CASE b = "keep" ->
                      /\ UNCHANGED response
                      /\ pc' = pc /\ pi' = pi + 1
                 [] b = "replace" ->
                      /\ response' = [response EXCEPT !.by = pi]
                      /\ pc' = pc /\ pi' = pi + 1
                 [] OTHER ->
                      /\ pc' = "rejected"
                      /\ UNCHANGED <<response, pi>>
            /\ log' = Append(log, Event("onResponse", pi, attempts, response,
                                        IF b = "throw" THEN Undefined
                                        ELSE response', 0))
            /\ thrown' = IF b = "throw" THEN thrown \cup {Hook("onResponse", pi)}
                         ELSE thrown
     ELSE /\ pi' = pi + 1
          /\ UNCHANGED <<response, log, pc, thrown>>
  /\ UNCHANGED <<aside, client, schemaOptions, retry, current, stableCtx, initSnapshot,
                 ctx, heap, lastResponse, lastResult, i, attempts, fetchCalls,
                 result>>

\* lastResponse = response; the response handler decides the attempt's
\* result and attempt() returns (its locals go out of scope).
HandleResponse ==
  /\ pc = "onResponse"
  /\ pi > Len(plugins)
  /\ lastResponse' = response
  /\ lastResult' = IF endpoint.stream
                   THEN handleStreamResponse(response, validateOutput)
                   ELSE handleJsonResponse(response, validateOutput)
  /\ pc' = "attempted"
  /\ ctx' = NoCtx
  /\ response' = Undefined
  /\ UNCHANGED <<aside, client, schemaOptions, retry, current, stableCtx, initSnapshot,
                 heap, i, pi, attempts, fetchCalls, log, thrown, result>>

\* ------------------------------------------------------------- retry loop
\* the retriable test left out
isRetriableError_any(tag) == TRUE

\* error._tag === "FetchError" || error._tag === "ApiError"
isRetriableError(tag) == tag \in RetriableTags

\* a success does not end the loop
breaks_errorsOnly(res) == ~res.ok /\ ~isRetriableError(res.v.tag)

\* only a success ends the loop
breaks_okOnly(res) == res.ok

\* if (lastResult.isOk()) break; if (error._tag !== "FetchError" &&
\* error._tag !== "ApiError") break
breaks(res) == res.ok \/ ~isRetriableError(res.v.tag)

\* the loop condition off by one: i <= retry.times
LoopCondition_inclusive(idx, r) == idx <= r.times

\* the loop condition of `for (let i = 0; i < retry.times; i += 1)`
LoopCondition(idx, r) == idx < r.times

\* retry.shouldRetry ?? (() => true): the answers the predicate may give
shouldRetryFn(r) == IF r.shouldRetry = "undefined" THEN {TRUE} ELSE BOOLEAN

\* the predicate's answer ignored
AfterShouldRetry_ignored(answer) == "onRetry"

\* if (!shouldRetryFn(error)) break: where the loop goes after the answer
AfterShouldRetry(answer) == IF answer THEN "onRetry" ELSE "terminal"

Bool(b) == Val("boolean", IF b THEN "true" ELSE "false", 0, 0, 0)

\* the loop counter never incremented
LoopIndex_stuck == i

\* the for statement's i += 1 runs when the attempt of a loop body returns
LoopIndex == IF attempts > 1 THEN i + 1 ELSE i

\* a retry object of the merged options stands in for a missing per-call one
retryPolicy_anyScope(callRetry, rest) ==
  IF ~callRetry.present /\ (\E x \in rest : x.name = "retry")
  THEN Retry(1, "undefined")
  ELSE callRetry

\* const { headers: callHeaders, retry, ...callRestOptions } =
\*   callRequestOptions ?? {}: the policy the call is executed under
retryPolicy(callRetry, rest) == callRetry

\* `retry ? executeWithPluginRetry(...) : attempt()` without a retry policy:
\* the single attempt's result is the final result.
SingleAttempt ==
  /\ pc = "attempted"
  /\ ~retryPolicy(retry, mergedRestOptions).present
  /\ pc' = "terminal"
  /\ pi' = 1
  /\ UNCHANGED <<aside, client, schemaOptions, retry, current, stableCtx, initSnapshot,
                 ctx, heap, response, lastResponse, lastResult, i, attempts,
                 fetchCalls, log, thrown, result>>

\* executeWithPluginRetry: the loop test and the three breaks.
RetryLoop ==
  /\ pc = "attempted"
  /\ retryPolicy(retry, mergedRestOptions).present
  /\ i' = LoopIndex
  /\ pi' = 1
  /\ IF LoopCondition(LoopIndex, retryPolicy(retry, mergedRestOptions))
        /\ ~breaks(lastResult)
     THEN \E answer \in shouldRetryFn(retryPolicy(retry, mergedRestOptions)) :
            /\ log' = Append(log, Event("shouldRetry", 0, attempts, lastResult.v,
                                        Bool(answer), 0))
            /\ pc' = AfterShouldRetry(answer)
     ELSE /\ pc' = "terminal"
          /\ UNCHANGED log
  /\ UNCHANGED <<aside, client, schemaOptions, retry, current, stableCtx, initSnapshot,
                 ctx, heap, response, lastResponse, lastResult, attempts,
                 fetchCalls, thrown, result>>

\* no try/catch around the hook: a throw ends the runner's loop
AfterObserver_abort(p, threw) == IF threw THEN Len(plugins) + 1 ELSE p + 1

\* what follows a hook of an observer runner (try { await hook } catch {}):
\* the next plugin, whether the hook returned or threw
AfterObserver(p, threw) == p + 1

\* the hooks are handed the context only
runOnRetryArgs_noError(sc, error) == <<sc, Undefined>>

\* runOnRetry(plugins, stableCtx, error) calls hook(ctx, error)
runOnRetryArgs(sc, error) == <<sc, error>>

\* runOnRetry(plugins, stableCtx, error): one iteration.
OnRetry ==
  /\ pc = "onRetry"
  /\ pi <= Len(plugins)
  /\ IF Has(plugins[pi], "onRetry")
     THEN \E threw \in BOOLEAN :
            LET args == runOnRetryArgs(stableCtx, lastResult.v) IN
            /\ log' = Append(log, ObserverEvent("onRetry", pi, attempts, args[1],
                                                args[2], Undefined))
            /\ thrown' = IF threw THEN thrown \cup {Hook("onRetry", pi)} ELSE thrown
            /\ pi' = AfterObserver(pi, threw)
     ELSE /\ pi' = pi + 1
          /\ UNCHANGED <<log, thrown>>
  /\ UNCHANGED <<aside, client, schemaOptions, retry, current, stableCtx, initSnapshot,
                 ctx, heap, response, lastResponse, lastResult, i, attempts,
                 fetchCalls, pc, result>>

\* an aborted signal cuts the sleep short
sleep_abortable(ms, sig) == IF sig.aborted THEN 0 ELSE ms

\* sleep(ms): new Promise((resolve) => setTimeout(resolve, ms)); the time
\* slept, whatever the state of the caller's signal
sleep(ms, sig) == ms

\* await sleep(getRetryDelay(retry, i)); lastResult = await attempt()
Sleep ==
  /\ pc = "onRetry"
  /\ pi > Len(plugins)
  /\ log' = Append(log, Event("sleep", 0, attempts, Undefined, Undefined,
                              sleep(getRetryDelay(retryPolicy(retry,
                                                              mergedRestOptions),
                                                  i), signal)))
  /\ attempt(stableCtx)
  /\ UNCHANGED <<aside, client, schemaOptions, retry, current, stableCtx, initSnapshot,
                 heap, response, lastResponse, lastResult, i, fetchCalls, thrown,
                 result>>

\* ---------------------------------------------------- terminal notification
\* runOnSuccess(plugins, ctx, data) is called as
\* runOnSuccess(plugins, stableCtx, lastResponse, finalResult.value) and calls
\* hook(ctx, data): the arguments the hook receives after ctx.
runOnSuccessArgs(resp, value) == <<resp, Undefined>>

\* runOnError calls hook(ctx, error)
runOnErrorArgs(error) == <<error, Undefined>>

\* runOnSuccess whatever the result
TerminalHook_alwaysSuccess(res) == "onSuccess"

\* finalResult.isOk() ? runOnSuccess(...) : runOnError(...)
TerminalHook(res) == IF res.ok THEN "onSuccess" ELSE "onError"

\* runOnSuccess: one iteration.
OnSuccess ==
  /\ pc = "terminal"
  /\ TerminalHook(lastResult) = "onSuccess"
  /\ pi <= Len(plugins)
  /\ IF Has(plugins[pi], "onSuccess")
     THEN \E threw \in BOOLEAN :
            LET args == runOnSuccessArgs(lastResponse, lastResult.v) IN
            /\ log' = Append(log, ObserverEvent("onSuccess", pi, attempts,
                                                stableCtx, args[1], args[2]))
            /\ thrown' = IF threw THEN thrown \cup {Hook("onSuccess", pi)} ELSE thrown
            /\ pi' = AfterObserver(pi, threw)
     ELSE /\ pi' = pi + 1
          /\ UNCHANGED <<log, thrown>>
  /\ UNCHANGED <<aside, client, schemaOptions, retry, current, stableCtx, initSnapshot,
                 ctx, heap, response, lastResponse, lastResult, i, attempts,
                 fetchCalls, pc, result>>

\* runOnError: one iteration.
OnError ==
  /\ pc = "terminal"
  /\ TerminalHook(lastResult) = "onError"
  /\ pi <= Len(plugins)
  /\ IF Has(plugins[pi], "onError")
     THEN \E threw \in BOOLEAN :
            LET args == runOnErrorArgs(lastResult.v) IN
            /\ log' = Append(log, ObserverEvent("onError", pi, attempts,
                                                stableCtx, args[1], args[2]))
            /\ thrown' = IF threw THEN thrown \cup {Hook("onError", pi)} ELSE thrown
            /\ pi' = AfterObserver(pi, threw)
     ELSE /\ pi' = pi + 1
          /\ UNCHANGED <<log, thrown>>
  /\ UNCHANGED <<aside, client, schemaOptions, retry, current, stableCtx, initSnapshot,
                 ctx, heap, response, lastResponse, lastResult, i, attempts,
                 fetchCalls, pc, result>>

\* return finalResult
Return ==
  /\ pc = "terminal"
  /\ pi > Len(plugins)
  /\ result' = lastResult
  /\ pc' = "done"
  /\ UNCHANGED <<aside, client, schemaOptions, retry, current, stableCtx, initSnapshot,
                 ctx, heap, response, lastResponse, lastResult, i, pi, attempts,
                 fetchCalls, log, thrown>>

Next ==
  \/ Invoke
  \/ PluginInit
  \/ InitDone
  \/ OnRequest
  \/ Fetch
  \/ OnResponse
  \/ HandleResponse
  \/ SingleAttempt
  \/ RetryLoop
  \/ OnRetry
  \/ Sleep
  \/ OnSuccess
  \/ OnError
  \/ Return

Spec == Init /\ [][Next]_vars

\* ------------------------------------------------------------ cancellation
\* A call made with an AbortSignal in its per-call options; the caller may
\* abort the signal at any moment before the call returns.
AbortInit ==
  /\ plugins \in {l \in PluginLists : Len(l) <= 1}
  /\ endpoint = GetPlain
  /\ validateInput = TRUE
  /\ validateOutput = TRUE
  /\ requestOptions = Options({}, {}, {}, {}, {}, {}, {SignalOption})
  /\ errorSchema = FALSE
  /\ shouldValidateError = "undefined"
  /\ pc = "idle"
  /\ schemaOptions = [input |-> TRUE, params |-> TRUE, query |-> TRUE]
  /\ retry = NoRetry
  /\ current = NoCtx
  /\ stableCtx = NoCtx
  /\ initSnapshot = Deref(NoCtx, <<>>)
  /\ ctx = NoCtx
  /\ heap = <<>>
  /\ response = Undefined
  /\ lastResponse = Undefined
  /\ lastResult = NoResult
  /\ i = 0
  /\ pi = 0
  /\ attempts = 0
  /\ fetchCalls = 0
  /\ log = <<>>
  /\ thrown = {}
  /\ result = NoResult
  /\ StreamingIdle
  /\ ConcurrentIdle
  /\ ResolutionIdle
  /\ signal = [passed |-> TRUE, aborted |-> FALSE, at |-> 0]
  /\ PreviousIdle

\* controller.abort(), by the caller
Abort ==
  /\ signal.passed /\ ~signal.aborted
  /\ pc \notin {"done", "rejected"}
  /\ signal' = [signal EXCEPT !.aborted = TRUE, !.at = fetchCalls]
  /\ UNCHANGED <<client, pc, schemaOptions, retry, current, stableCtx,
                 initSnapshot, ctx, heap, response, lastResponse, lastResult,
                 i, pi, attempts, fetchCalls, log, thrown, result, streaming,
                 concurrent, resolution, previous>>

AbortNext == Next \/ Abort

AbortSpec == AbortInit /\ [][AbortNext]_vars

\* =============================================================== withRetry
\* utils.ts withRetry(attempt, retry): the retry loop on its own, around an
\* attempt function whose outcome is free, for every backoff strategy.
MaxRetries == 3
Backoffs == {"constant", "linear", "exponential"}
BaseDelays == {DelayMs, 2 * DelayMs + 50}

BackoffPolicies ==
  { [present |-> TRUE, times |-> n, delayMs |-> d, backoff |-> b,
     shouldRetry |-> s] :
      n \in 0..MaxRetries, d \in BaseDelays, b \in Backoffs,
      s \in {"undefined", "fn"} }

\* what one invocation of the attempt function (the n-th) may resolve to
AttemptOutcomes(n) ==
  {ResultOk(Val("data", "value", n, 0, 200))}
    \cup { ResultErr(Error(t, n)) : t \in RetriableTags \cup TerminalTags }

\* the variables withRetry has nothing to do with
pipeline == <<plugins, endpoint, validateInput, validateOutput, requestOptions,
              errorSchema, shouldValidateError,
              schemaOptions,
              current, stableCtx, initSnapshot, ctx, heap, response,
              lastResponse, pi, fetchCalls, thrown>>

WithRetryInit ==
  /\ plugins = <<>>
  /\ endpoint = GetPlain
  /\ validateInput = TRUE
  /\ validateOutput = TRUE
  /\ requestOptions = NoOptions
  /\ errorSchema = FALSE
  /\ shouldValidateError = "undefined"
  /\ pc = "withRetry"
  /\ schemaOptions = [input |-> TRUE, params |-> TRUE, query |-> TRUE]
  /\ retry \in BackoffPolicies
  /\ current = NoCtx
  /\ stableCtx = NoCtx
  /\ initSnapshot = Deref(NoCtx, <<>>)
  /\ ctx = NoCtx
  /\ heap = <<>>
  /\ response = Undefined
  /\ lastResponse = Undefined
  /\ lastResult = NoResult
  /\ i = 0
  /\ pi = 0
  /\ attempts = 0
  /\ fetchCalls = 0
  /\ log = <<>>
  /\ thrown = {}
  /\ result = NoResult
  /\ AsideIdle

\* let lastResult = await attempt(): before the loop
WithRetryFirstAttempt ==
  /\ pc = "withRetry"
  /\ attempts' = attempts + 1
  /\ lastResult' \in AttemptOutcomes(attempts + 1)
  /\ i' = 0
  /\ pc' = "withRetry.loop"
  /\ UNCHANGED <<aside, pipeline, retry, log, result>>

\* the loop test, the three breaks and the sleep
WithRetryLoop ==
  /\ pc = "withRetry.loop"
  /\ IF LoopCondition(i, retry) /\ ~lastResult.ok
        /\ isRetriableError(lastResult.v.tag)
     THEN \E answer \in shouldRetryFn(retry) :
            IF answer
            THEN /\ log' = log
                      \o <<Event("shouldRetry", 0, attempts, lastResult.v,
                                 Bool(answer), 0),
                           Event("sleep", 0, attempts, Undefined, Undefined,
                                 getRetryDelay(retry, i))>>
                 /\ pc' = "withRetry.attempt"
                 /\ UNCHANGED result
            ELSE /\ log' = Append(log, Event("shouldRetry", 0, attempts,
                                             lastResult.v, Bool(answer), 0))
                 /\ pc' = "withRetry.done"
                 /\ result' = lastResult
     ELSE /\ pc' = "withRetry.done"
          /\ result' = lastResult
          /\ UNCHANGED log
  /\ UNCHANGED <<aside, pipeline, retry, lastResult, i, attempts>>

\* lastResult = await attempt() at the end of the loop body, then i += 1
WithRetryAttempt ==
  /\ pc = "withRetry.attempt"
  /\ attempts' = attempts + 1
  /\ lastResult' \in AttemptOutcomes(attempts + 1)
  /\ i' = i + 1
  /\ pc' = "withRetry.loop"
  /\ UNCHANGED <<aside, pipeline, retry, log, result>>

WithRetryNext == WithRetryFirstAttempt \/ WithRetryLoop \/ WithRetryAttempt

WithRetrySpec == WithRetryInit /\ [][WithRetryNext]_vars

\* ============================================================ two drivers
\* The same call driven twice: by executeWithPluginRetry, as buildEndpointFn
\* does for a client without plugins, and then by withRetry under the same
\* policy, with an attempt function that resolves to what the attempts of
\* the first run resolved to and a shouldRetry that answers as it did.
DriversInit ==
  /\ plugins = <<>>
  /\ endpoint = GetPlain
  /\ validateInput = TRUE
  /\ validateOutput = TRUE
  /\ requestOptions = NoOptions
  /\ errorSchema = FALSE
  /\ shouldValidateError = "undefined"
  /\ pc = "idle"
  /\ schemaOptions = [input |-> TRUE, params |-> TRUE, query |-> TRUE]
  /\ retry = NoRetry
  /\ current = NoCtx
  /\ stableCtx = NoCtx
  /\ initSnapshot = Deref(NoCtx, <<>>)
  /\ ctx = NoCtx
  /\ heap = <<>>
  /\ response = Undefined
  /\ lastResponse = Undefined
  /\ lastResult = NoResult
  /\ i = 0
  /\ pi = 0
  /\ attempts = 0
  /\ fetchCalls = 0
  /\ log = <<>>
  /\ thrown = {}
  /\ result = NoResult
  /\ AsideIdle

\* the entries of a run's log of one kind
Entries(l, kind) == SelectSeq(l, LAMBDA e : e.kind = kind)

\* what the n-th attempt of the finished run resolved to: the run's result
\* for the last attempt, the error shouldRetry was consulted with otherwise
OutcomeOf(run, n) ==
  IF n = run.attempts THEN run.result
  ELSE LET asked == SelectSeq(Entries(run.log, "shouldRetry"),
                              LAMBDA e : e.attempt = n)
       IN ResultErr(asked[1].a2)

\* two results of the n-th attempt are the same outcome: both a success, or
\* both the same kind of error
SameOutcome(a, b) ==
  /\ a.ok = b.ok
  /\ a.v.n = b.v.n
  /\ ~a.ok => a.v.tag = b.v.tag

\* the attempt function resolves as it did in the finished run
AttemptAgrees ==
  attempts' <= previous.attempts =>
    SameOutcome(OutcomeOf(previous, attempts'), lastResult')

\* shouldRetry answers as it did in the finished run
AnswerAgrees ==
  \A e \in {log'[k] : k \in DOMAIN log'} :
    \A f \in {previous.log[k] : k \in DOMAIN previous.log} :
      (e.kind = "shouldRetry" /\ f.kind = "shouldRetry"
         /\ e.attempt = f.attempt /\ e.a2.tag = f.a2.tag) => e.a3 = f.a3

\* the call is made under a retry policy
DriversInvoke == Invoke /\ retry'.present

\* the first run has returned: withRetry is started on the same policy
DriversSwitch ==
  /\ pc = "done"
  /\ ~previous.done
  /\ previous' = [done |-> TRUE, attempts |-> attempts, log |-> log,
                  result |-> result]
  /\ pc' = "withRetry"
  /\ lastResult' = NoResult
  /\ i' = 0
  /\ attempts' = 0
  /\ log' = <<>>
  /\ result' = NoResult
  /\ UNCHANGED <<pipeline, retry, streaming, concurrent, resolution, signal>>

DriversNext ==
  \/ DriversInvoke
  \/ InitDone
  \/ Fetch
  \/ HandleResponse
  \/ RetryLoop
  \/ Sleep
  \/ Return
  \/ DriversSwitch
  \/ WithRetryFirstAttempt /\ AttemptAgrees
  \/ WithRetryLoop /\ AnswerAgrees
  \/ WithRetryAttempt /\ AttemptAgrees

DriversSpec == DriversInit /\ [][DriversNext]_vars

\* =================================================================== merge
\* The option and header merge on its own, for layers that set any of a few
\* header names and option names.
HeaderNames == {"Authorization", "X-Layer", "Content-Type", "content-type"}
RestNames == {"cache", "retry"}

\* buildAuthHeader(auth): {} or {Authorization}
AuthHeaders == {Layer("auth", a) : a \in SUBSET {"Authorization"}}

\* header layers (no other option), or other options (no header); `retry` is
\* taken out of the per-call options before the merge
OptionCases ==
  { Options(a, Layer("global", g), Layer("endpoint", e), Layer("call", c),
            {}, {}, {}) :
      a \in AuthHeaders, g \in SUBSET HeaderNames, e \in SUBSET HeaderNames,
      c \in SUBSET HeaderNames }
  \cup
  { Options({}, {}, {}, {}, Layer("global", g), Layer("endpoint", e),
            Layer("call", c)) :
      g \in SUBSET RestNames, e \in SUBSET RestNames, c \in SUBSET {"cache"} }

MergeInit ==
  /\ plugins = <<>>
  /\ endpoint \in {GetPlain, PostInput}
  /\ validateInput = TRUE
  /\ validateOutput = TRUE
  /\ requestOptions \in OptionCases
  /\ errorSchema = FALSE
  /\ shouldValidateError = "undefined"
  /\ pc = "merge"
  /\ schemaOptions = [input |-> TRUE, params |-> TRUE, query |-> TRUE]
  /\ retry = NoRetry
  /\ current = NoCtx
  /\ stableCtx = NoCtx
  /\ initSnapshot = Deref(NoCtx, <<>>)
  /\ ctx = NoCtx
  /\ heap = <<>>
  /\ response = Undefined
  /\ lastResponse = Undefined
  /\ lastResult = NoResult
  /\ i = 0
  /\ pi = 0
  /\ attempts = 0
  /\ fetchCalls = 0
  /\ log = <<>>
  /\ thrown = {}
  /\ result = NoResult
  /\ AsideIdle

\* the merge and the options object handed to runPluginInit
Merge ==
  /\ pc = "merge"
  /\ current' = initArgs(endpoint, mergedRestOptions)
  /\ heap' = <<mergedHeaders>>
  /\ pc' = "merged"
  /\ UNCHANGED <<aside, client, schemaOptions, retry, stableCtx, initSnapshot, ctx,
                 response, lastResponse, lastResult, i, pi, attempts,
                 fetchCalls, log, thrown, result>>

MergeNext == Merge

MergeSpec == MergeInit /\ [][MergeNext]_vars

\* ========================================================= response handler
\* The response handlers on their own: an attempt of a client without
\* plugins whose transport call has just answered, for every body, a range
\* of statuses and every error-schema configuration.
BodyTexts == {"okValid", "okMismatch", "okNotJson", "okNoBody", "unreadable",
              "errStatus", "errJson", "errJsonMismatch"}
Statuses == {200, 204, 299, 300, 304, 404, 500}
ErrorPredicates == {"undefined", "validateAllErrors", "validateClientErrors"}

HandlerInit ==
  /\ plugins = <<>>
  /\ endpoint \in {GetPlain, PostStream}
  /\ validateInput = TRUE
  /\ validateOutput \in BOOLEAN
  /\ requestOptions = NoOptions
  /\ errorSchema \in BOOLEAN
  /\ shouldValidateError \in ErrorPredicates
  /\ pc = "onResponse"
  /\ schemaOptions = [input |-> TRUE, params |-> TRUE, query |-> TRUE]
  /\ retry = NoRetry
  /\ current = initArgs(endpoint, {})
  /\ stableCtx = current
  /\ initSnapshot = Deref(current, <<mergedHeaders>>)
  /\ ctx = current
  /\ heap = <<mergedHeaders>>
  /\ response \in {Val("response", text, 1, 0, st) :
                     text \in BodyTexts, st \in Statuses}
  /\ lastResponse = PlaceholderResponse
  /\ lastResult = NoResult
  /\ i = 0
  /\ pi = 1
  /\ attempts = 1
  /\ fetchCalls = 1
  /\ log = <<Event("fetch", 0, 1, response, Deref(ctx, heap), 0)>>
  /\ thrown = {}
  /\ result = NoResult
  /\ AsideIdle

HandlerNext == HandleResponse

HandlerSpec == HandlerInit /\ [][HandlerNext]_vars

\* =============================================================== SSE decoder
\* Text is a sequence of characters.  The lines and payloads of the streams
\* below are written with these pieces.
DataPrefix == <<"d", "a", "t", "a", ":">>
DoneMarker == <<"[", "D", "O", "N", "E", "]">>
Newline == <<"\n">>
Whitespace == {" ", "\t", "\r", "\n"}

\* JavaScript values: null, strings, numbers and objects
JsNull == [t |-> "null"]
JsString(s) == [t |-> "string", v |-> s]
JsNumber(n) == [t |-> "number", v |-> n]
JsObject == [t |-> "object"]

\* String.prototype.trim
RECURSIVE trimStart(_)
trimStart(s) ==
  IF s # <<>> /\ Head(s) \in Whitespace THEN trimStart(Tail(s)) ELSE s

RECURSIVE trimEnd(_)
trimEnd(s) ==
  IF s # <<>> /\ s[Len(s)] \in Whitespace
  THEN trimEnd(SubSeq(s, 1, Len(s) - 1)) ELSE s

trim(s) == trimEnd(trimStart(s))

\* String.prototype.startsWith, slice(n)
startsWith(s, prefix) ==
  Len(s) >= Len(prefix) /\ SubSeq(s, 1, Len(prefix)) = prefix

slice(s, n) == SubSeq(s, n + 1, Len(s))

\* String.prototype.split("\n"): at least one piece, the last one is what
\* follows the last newline
RECURSIVE split(_)
split(s) ==
  IF \A k \in 1..Len(s) : s[k] # "\n" THEN <<s>>
  ELSE LET k == CHOOSE k \in 1..Len(s) :
                  s[k] = "\n" /\ \A j \in 1..(k - 1) : s[j] # "\n"
       IN <<SubSeq(s, 1, k - 1)>> \o split(SubSeq(s, k + 1, Len(s)))

\* extractDataLine(line): the payload of a data line, or null
extractDataLine(line) ==
  LET trimmed == trim(line) IN
  IF ~startsWith(trimmed, DataPrefix) THEN JsNull
  ELSE LET dataContent == trim(slice(trimmed, 5)) IN
       IF dataContent = <<>> \/ dataContent = DoneMarker THEN JsNull
       ELSE JsString(dataContent)

\* JSON.parse of the payloads that occur below; everything else is not JSON
JSONparse(s) ==
  IF s = <<"0">> THEN ResultOk(JsNumber(0))
  ELSE IF s = <<"1">> THEN ResultOk(JsNumber(1))
  ELSE IF s = <<"2">> THEN ResultOk(JsNumber(2))
  ELSE IF s = <<"{", "}">> THEN ResultOk(JsObject)
  ELSE ResultErr(Error("ParseError", 0))

\* !value: the values JavaScript treats as false
Falsy(value) ==
  \/ value.t = "null"
  \/ value.t = "number" /\ value.v = 0
  \/ value.t = "string" /\ value.v = <<>>

\* outputSchema.safeParse(value).success for the schemas z.number() and
\* z.unknown()
safeParse(schema, value) ==
  IF schema = "number" THEN value.t = "number" ELSE TRUE

\* processStreamChunk(dataContent, outputSchema, validateOutput): the value
\* to enqueue, or null
processStreamChunk(dataContent, schema, vOutput) ==
  IF schema = "undefined" THEN JsString(dataContent)
  ELSE LET parsed == JSONparse(dataContent)
           processedData == IF parsed.ok THEN parsed.v ELSE JsNull
       IN IF Falsy(processedData) THEN JsNull
          ELSE IF vOutput
          THEN IF safeParse(schema, processedData) THEN processedData
               ELSE JsNull
          ELSE processedData

\* for (const line of lines): the values the loop enqueues, in order
RECURSIVE lineValues(_, _, _)
lineValues(lines, schema, vOutput) ==
  IF lines = <<>> THEN <<>>
  ELSE LET dataContent == extractDataLine(Head(lines))
           processedData ==
             IF dataContent = JsNull THEN JsNull
             ELSE processStreamChunk(dataContent.v, schema, vOutput)
       IN (IF processedData = JsNull THEN <<>> ELSE <<processedData>>)
          \o lineValues(Tail(lines), schema, vOutput)

\* ------------------------------------------------------- the lazy sequence
\* new ReadableStream({pull, cancel}) with the default queuing strategy: the
\* stream calls pull and cancel as the Streams standard prescribes.  The
\* operators below work on the stream, the byte reader and the consumer
\* together; threw tells that a controller method threw a TypeError.
MaxChunks == 3
HighWaterMark == 1

Bundle(st, rd, co) ==
  [stream |-> st, reader |-> rd, consumer |-> co, threw |-> FALSE]

\* ReadableStreamDefaultControllerCanCloseOrEnqueue
CanCloseOrEnqueue(b) ==
  b.stream.state = "readable" /\ ~b.stream.closeRequested

\* ReadableStreamDefaultControllerShouldCallPull
ShouldCallPull(b) ==
  /\ CanCloseOrEnqueue(b)
  /\ \/ b.stream.readRequests > 0
     \/ HighWaterMark - Len(b.stream.queue) > 0

\* the pull algorithm is started although a pull is in progress
startPull_reentrant(b) ==
  [b EXCEPT !.stream.pulling = TRUE,
            !.reader.reads = @ + 1, !.reader.inflight = @ + 1]

\* ReadableStreamDefaultControllerCallPullIfNeeded, once ShouldCallPull
\* holds: a pull in progress is only asked to pull again; otherwise pull()
\* starts and runs up to its `await reader.read()`
startPull(b) ==
  IF b.stream.pulling THEN [b EXCEPT !.stream.pullAgain = TRUE]
  ELSE [b EXCEPT !.stream.pulling = TRUE,
                 !.reader.reads = @ + 1, !.reader.inflight = @ + 1]

CallPullIfNeeded(b) == IF ShouldCallPull(b) THEN startPull(b) ELSE b

\* controller.enqueue(chunk): a waiting read takes the chunk, otherwise it
\* is queued
enqueue(b, chunk) ==
  IF ~CanCloseOrEnqueue(b) THEN [b EXCEPT !.threw = TRUE]
  ELSE CallPullIfNeeded(
         IF b.stream.readRequests > 0
         THEN [b EXCEPT !.stream.readRequests = @ - 1,
                        !.consumer.delivered = Append(@, chunk)]
         ELSE [b EXCEPT !.stream.queue = Append(@, chunk)])

\* the loop of enqueue calls; the first one that throws ends pull()
RECURSIVE enqueueAll(_, _)
enqueueAll(b, values) ==
  IF values = <<>> \/ b.threw THEN b
  ELSE enqueueAll(enqueue(b, Head(values)), Tail(values))

\* ReadableStreamClose: the stream is closed and every waiting read is
\* answered with done
ReadableStreamClose(b) ==
  [b EXCEPT !.stream.state = "closed", !.stream.readRequests = 0,
            !.consumer.done = @ \/ b.stream.readRequests > 0]

\* controller.close()
close(b) ==
  IF ~CanCloseOrEnqueue(b) THEN [b EXCEPT !.threw = TRUE]
  ELSE LET requested == [b EXCEPT !.stream.closeRequested = TRUE]
       IN IF b.stream.queue = <<>> THEN ReadableStreamClose(requested)
          ELSE requested

\* cancel() { reader.cancel() } is not called
cancel_noop(rd) == rd

\* cancel() { reader.cancel() }
cancel(rd) == [rd EXCEPT !.cancelled = TRUE]

\* the reader is acquired whatever the handler returns
readerAcquired_always(handled) == TRUE

\* const reader = response.body.getReader() is reached exactly when the
\* handler has not returned an error before it
readerAcquired(handled) == handled.ok

\* the sequence is closed without a look at the buffer
pullDone_noFlush(b, buf, schema, vOutput) == close(b)

\* the body of pull after `await reader.read()` answered done
pullDone(b, buf, schema, vOutput) ==
  LET flushed ==
        IF trim(buf) # <<>>
        THEN enqueueAll(b, lineValues(split(buf), schema, vOutput))
        ELSE b
  IN IF flushed.threw THEN flushed ELSE close(flushed)

\* the body of pull after `await reader.read()` answered with a chunk, for
\* the lines completed by it
pullChunk(b, lines, schema, vOutput) ==
  enqueueAll(b, lineValues(lines, schema, vOutput))

\* the streams a server sends: data lines with JSON numbers, a payload that
\* is not JSON, an object, a comment, an empty payload, a done marker, and
\* a last line without newline
DataLine(payload) == DataPrefix \o <<" ">> \o payload \o Newline

Texts == {
  DataLine(<<"1">>),
  DataLine(<<"1">>) \o DataLine(<<"2">>),
  DataLine(<<"x">>) \o DataLine(<<"1">>),
  DataLine(<<"x">>) \o DataLine(<<"x">>) \o DataLine(<<"1">>),
  DataLine(<<"{", "}">>) \o DataLine(<<"2">>),
  DataLine(<<"0">>) \o DataLine(<<"1">>),
  <<":">> \o Newline \o DataPrefix \o Newline \o DataPrefix \o <<"2">>,
  DataLine(DoneMarker) \o DataLine(<<"1">>) }

\* the ways the transport cuts a text into at most n chunks
RECURSIVE Cuts(_, _, _)
Cuts(lo, hi, n) ==
  IF n = 0 THEN {<<>>}
  ELSE {<<>>} \cup
       UNION {{<<c>> \o rest : rest \in Cuts(c + 1, hi, n - 1)} : c \in lo..hi}

Pieces(t, cuts) ==
  [k \in 1..(Len(cuts) + 1) |->
     SubSeq(t, IF k = 1 THEN 1 ELSE cuts[k - 1] + 1,
               IF k = Len(cuts) + 1 THEN Len(t) ELSE cuts[k])]

Splits(t) == {Pieces(t, cuts) : cuts \in Cuts(1, Len(t) - 1, MaxChunks - 1)}

\* endpoint.output and validateOutput
SchemaCases == {<<"undefined", TRUE>>, <<"number", TRUE>>,
                <<"number", FALSE>>, <<"unknown", TRUE>>}

StreamInit ==
  /\ plugins = <<>>
  /\ endpoint = PostStream
  /\ validateInput = TRUE
  /\ requestOptions = NoOptions
  /\ errorSchema = FALSE
  /\ shouldValidateError = "undefined"
  /\ pc = "onResponse"
  /\ schemaOptions = [input |-> TRUE, params |-> TRUE, query |-> TRUE]
  /\ retry = NoRetry
  /\ current = initArgs(endpoint, {})
  /\ stableCtx = current
  /\ initSnapshot = Deref(current, <<mergedHeaders>>)
  /\ ctx = current
  /\ heap = <<mergedHeaders>>
  /\ \/ /\ \E c \in SchemaCases : outputSchema = c[1] /\ validateOutput = c[2]
        /\ response = Val("response", "okStream", 1, 0, 200)
        /\ body \in Texts
        /\ chunks \in Splits(body)
     \/ /\ outputSchema = "undefined" /\ validateOutput = TRUE
        /\ response \in
             {Val("response", kind, 1, 0, st) :
                kind \in {"errStatus", "unreadable"}, st \in {304, 404, 500}}
             \cup {Val("response", "okNoBody", 1, 0, 200)}
        /\ body = <<>>
        /\ chunks = <<>>
  /\ reader = NoReader
  /\ buffer = <<>>
  /\ stream = NoStream
  /\ consumer = NoConsumer
  /\ ConcurrentIdle
  /\ ResolutionIdle
  /\ SignalIdle
  /\ PreviousIdle
  /\ lastResponse = PlaceholderResponse
  /\ lastResult = NoResult
  /\ i = 0
  /\ pi = 1
  /\ attempts = 1
  /\ fetchCalls = 1
  /\ log = <<Event("fetch", 0, 1, response, Deref(ctx, heap), 0)>>
  /\ thrown = {}
  /\ result = NoResult

call == <<plugins, endpoint, validateInput, validateOutput, requestOptions,
          errorSchema, shouldValidateError, schemaOptions, retry, current,
          stableCtx, initSnapshot, ctx, heap, i, pi, attempts, fetchCalls,
          log, thrown, signal, previous>>

\* handleStreamResponse: an error before the reader is acquired, or the
\* reader, the buffer and the stream.  The stream starts at once (there is
\* no start()), and since its queue is below the high water mark it calls
\* pull before the caller holds it.
OpenStream ==
  /\ pc = "onResponse"
  /\ LET handled == handleStreamResponse(response, validateOutput)
         acquired == [NoReader EXCEPT !.acquired = TRUE]
         constructed == [NoStream EXCEPT !.state = "readable"]
         started == CallPullIfNeeded(Bundle(constructed, acquired, consumer))
     IN /\ lastResult' = handled
        /\ result' = handled
        /\ IF readerAcquired(handled)
           THEN reader' = started.reader /\ stream' = started.stream
           ELSE UNCHANGED <<reader, stream>>
  /\ lastResponse' = response
  /\ response' = Undefined
  /\ pc' = "returned"
  /\ UNCHANGED <<call, concurrent, resolution, outputSchema, body, chunks, buffer, consumer>>

\* `await reader.read()` answers and pull runs to its end: with the next
\* chunk, or with done when the body is exhausted or the reader has been
\* cancelled.
TransportRead ==
  /\ reader.inflight > 0
  /\ \E done \in BOOLEAN :
       /\ done => (chunks = <<>> \/ reader.cancelled)
       /\ ~done => chunks # <<>>
       /\ LET b == Bundle(stream,
                          [reader EXCEPT !.inflight = @ - 1], consumer)
              lines == split(buffer \o Head(chunks))
              after ==
                IF done
                THEN pullDone(b, buffer, outputSchema, validateOutput)
                ELSE pullChunk(b, SubSeq(lines, 1, Len(lines) - 1),
                               outputSchema, validateOutput)
          IN /\ stream' = [after.stream EXCEPT !.settled = ~after.threw]
             /\ reader' = after.reader
             /\ consumer' = after.consumer
             /\ buffer' = IF done THEN buffer ELSE lines[Len(lines)]
             /\ chunks' = IF done THEN chunks ELSE Tail(chunks)
  /\ UNCHANGED <<call, concurrent, resolution, pc, response, lastResponse, lastResult, result,
                 outputSchema, body>>

\* the promise pull returned is fulfilled: the stream pulls again only if
\* it was asked to meanwhile
PullSettled ==
  /\ stream.pulling /\ stream.settled
  /\ LET b == Bundle([stream EXCEPT !.pulling = FALSE, !.settled = FALSE,
                                    !.pullAgain = FALSE], reader, consumer)
         after == IF stream.pullAgain THEN CallPullIfNeeded(b) ELSE b
     IN /\ stream' = after.stream
        /\ reader' = after.reader
  /\ UNCHANGED <<call, concurrent, resolution, pc, response, lastResponse, lastResult, result,
                 outputSchema, body, chunks, buffer, consumer>>

\* the caller reads the next value, one read at a time
ConsumerRead ==
  /\ stream.state # "none"
  /\ stream.readRequests = 0
  /\ ~consumer.done
  /\ LET b == Bundle(stream, reader,
                     [consumer EXCEPT !.reads = @ + 1])
         after ==
           IF stream.state = "closed" THEN [b EXCEPT !.consumer.done = TRUE]
           ELSE IF stream.queue # <<>>
           THEN LET taken ==
                      [b EXCEPT !.stream.queue = Tail(@),
                                !.consumer.delivered =
                                   Append(@, Head(stream.queue))]
                IN IF stream.closeRequested /\ taken.stream.queue = <<>>
                   THEN ReadableStreamClose(taken)
                   ELSE CallPullIfNeeded(taken)
           ELSE CallPullIfNeeded([b EXCEPT !.stream.readRequests = 1])
     IN /\ stream' = after.stream
        /\ reader' = after.reader
        /\ consumer' = after.consumer
  /\ UNCHANGED <<call, concurrent, resolution, pc, response, lastResponse, lastResult, result,
                 outputSchema, body, chunks, buffer>>

\* the caller cancels the stream: nothing happens to a closed stream;
\* otherwise it is closed, its queue is dropped and cancel() runs
ConsumerCancel ==
  /\ stream.state # "none"
  /\ ~consumer.cancelled
  /\ LET noted == [consumer EXCEPT
                     !.cancelled = TRUE,
                     !.atCancel = <<[reads |-> reader.reads,
                                     inflight |-> reader.inflight,
                                     delivered |-> consumer.delivered,
                                     state |-> stream.state]>>]
         b == Bundle(stream, reader, noted)
         after ==
           IF stream.state = "closed" THEN b
           ELSE [ReadableStreamClose(b) EXCEPT
                   !.stream.queue = <<>>, !.reader = cancel(reader)]
     IN /\ stream' = after.stream
        /\ reader' = after.reader
        /\ consumer' = after.consumer
  /\ UNCHANGED <<call, concurrent, resolution, pc, response, lastResponse, lastResult, result,
                 outputSchema, body, chunks, buffer>>

StreamNext ==
  \/ OpenStream
  \/ TransportRead
  \/ PullSettled
  \/ ConsumerRead
  \/ ConsumerCancel

StreamSpec == StreamInit /\ [][StreamNext]_vars

\* a server that writes whole lines: every chunk ends with a newline
StreamLiveInit ==
  /\ StreamInit
  /\ response.tag = "okStream"
  /\ \A k \in DOMAIN chunks : chunks[k][Len(chunks[k])] = "\n"

\* the transport answers every read, a fulfilled pull promise is handled,
\* and the caller reads again whenever its last read has resolved.  The last
\* conjunct is weak fairness of TransportRead with its enabling condition,
\* a read in flight, written out.
StreamLiveSpec ==
  /\ StreamLiveInit
  /\ [][StreamNext]_vars
  /\ WF_vars(PullSettled)
  /\ WF_vars(ConsumerRead)
  /\ ([]<>(reader.inflight = 0) \/ []<><<TransportRead>>_vars)

\* ========================================================= concurrent calls
\* Several calls in flight on one client.  What buildEndpointFn captures
\* (endpoint, headers and options of the outer scopes, plugins) is only
\* read; every invocation of the function it returns has its own retry,
\* stableCtx, lastResponse, lastResult and loop counter.  The calls run on a
\* client without plugins and interleave at their suspension points.
MaxCalls == 2
CallIds == 1..MaxCalls
CallLabels == <<"call1", "call2", "call3", "call4">>

\* what a call is made with: the endpoint, callRequestOptions.retry, and
\* what the transport will do on its attempts
CallWith(ep, r, script) == [endpoint |-> ep, retry |-> r, script |-> script]

CallArgs ==
  { CallWith(GetPlain, NoRetry, <<"ok">>),
    CallWith(GetPlain, Retry(1, "undefined"), <<"api", "ok">>),
    CallWith(PostInput, Retry(1, "undefined"), <<"fetch", "api">>),
    CallWith(PostInput, NoRetry, <<"api">>) }

NoFrame == [stableCtx |-> <<>>, lastResponse |-> Undefined,
            lastResult |-> NoResult, i |-> 0, attempts |-> 0]

\* the stable context of call c: its own headers argument is merged in
StableCtxOf(c, args) ==
  [url |-> "resolved", method |-> args.endpoint.method,
   headers |-> mergeHeaders({}, {}, {},
                            {Entry("X-Call", CallLabels[c], 0, 0)}),
   body |-> IF args.endpoint.method = "GET" THEN "undefined" ELSE "json"]

\* what the transport answers to attempt n of call c
TransportResponse(c, n, outcome) ==
  Val("response", IF outcome = "ok" THEN "okValid" ELSE "errStatus", n, c,
      IF outcome = "ok" THEN 200 ELSE 500)

\* the variables are those of the enclosing scope, one set for all calls
frameOf_shared(c) == 1

\* the let/const of the async function buildEndpointFn returns belong to the
\* invocation
frameOf(c) == c

InFlight(c) == calls[c].pc \notin {"idle", "returned"}

\* call c takes a step while another call is in flight
Step(c, position) ==
  [calls[c] EXCEPT !.pc = position,
                   !.overlap = @ \/ \E d \in CallIds \ {c} : InFlight(d)]

ConcurrentInit ==
  /\ plugins = <<>>
  /\ endpoint = GetPlain
  /\ validateInput = TRUE
  /\ validateOutput = TRUE
  /\ requestOptions = NoOptions
  /\ errorSchema = FALSE
  /\ shouldValidateError = "undefined"
  /\ pc = "concurrent"
  /\ schemaOptions = [input |-> TRUE, params |-> TRUE, query |-> TRUE]
  /\ retry = NoRetry
  /\ current = NoCtx
  /\ stableCtx = NoCtx
  /\ initSnapshot = Deref(NoCtx, <<>>)
  /\ ctx = NoCtx
  /\ heap = <<>>
  /\ response = Undefined
  /\ lastResponse = Undefined
  /\ lastResult = NoResult
  /\ i = 0
  /\ pi = 0
  /\ attempts = 0
  /\ fetchCalls = 0
  /\ log = <<>>
  /\ thrown = {}
  /\ result = NoResult
  /\ StreamingIdle
  /\ ResolutionIdle
  /\ SignalIdle
  /\ PreviousIdle
  /\ calls \in [CallIds ->
                  {[args |-> a, pc |-> "idle", script |-> a.script,
                    response |-> Undefined, result |-> NoResult,
                    final |-> NoFrame, overlap |-> FALSE] : a \in CallArgs}]
  /\ frames = [c \in CallIds |-> NoFrame]

single == <<plugins, endpoint, validateInput, validateOutput, requestOptions,
            errorSchema, shouldValidateError, pc, schemaOptions, retry,
            current, stableCtx, initSnapshot, ctx, heap, response,
            lastResponse, lastResult, i, pi, attempts, fetchCalls, log,
            thrown, result, signal, previous>>

\* the endpoint function is invoked: validation, merge, init, stableCtx and
\* let lastResponse = new Response()
CallInvoke(c) ==
  /\ calls[c].pc = "idle"
  /\ frames' = [frames EXCEPT ![frameOf(c)] =
                  [NoFrame EXCEPT !.stableCtx = StableCtxOf(c, calls[c].args),
                                  !.lastResponse = PlaceholderResponse]]
  /\ calls' = [calls EXCEPT ![c] = Step(c, "attempt")]
  /\ UNCHANGED <<single, streaming, resolution>>

\* attempt(): safeFetch answers, with a FetchError or with a response
CallFetch(c) ==
  /\ calls[c].pc = "attempt"
  /\ LET f == frames[frameOf(c)]
         outcome == Head(calls[c].script)
     IN IF outcome = "fetch"
        THEN /\ frames' = [frames EXCEPT ![frameOf(c)] =
                             [f EXCEPT !.attempts = @ + 1,
                                       !.lastResult =
                                          ResultErr(Error("FetchError",
                                                          f.attempts + 1))]]
             /\ calls' = [calls EXCEPT ![c] =
                            [Step(c, "attempted") EXCEPT !.script = Tail(@)]]
        ELSE /\ frames' = [frames EXCEPT ![frameOf(c)] =
                             [f EXCEPT !.attempts = @ + 1]]
             /\ calls' = [calls EXCEPT ![c] =
                            [Step(c, "responded") EXCEPT
                               !.script = Tail(@),
                               !.response =
                                  TransportResponse(c, f.attempts + 1,
                                                    outcome)]]
  /\ UNCHANGED <<single, streaming, resolution>>

\* lastResponse = response, then the handler reads the body
CallResponded(c) ==
  /\ calls[c].pc = "responded"
  /\ frames' = [frames EXCEPT ![frameOf(c)].lastResponse = calls[c].response]
  /\ calls' = [calls EXCEPT ![c] = Step(c, "handling")]
  /\ UNCHANGED <<single, streaming, resolution>>

\* handleJsonResponse returns; lastResult = await attempt()
CallHandled(c) ==
  /\ calls[c].pc = "handling"
  /\ frames' = [frames EXCEPT ![frameOf(c)].lastResult =
                  handleJsonResponse(calls[c].response, validateOutput)]
  /\ calls' = [calls EXCEPT ![c] =
                 [Step(c, "attempted") EXCEPT !.response = Undefined]]
  /\ UNCHANGED <<single, streaming, resolution>>

\* executeWithPluginRetry: the loop goes on to sleep before the next attempt
CallRetry(c) ==
  /\ calls[c].pc = "attempted"
  /\ LET f == frames[frameOf(c)]
         r == calls[c].args.retry
     IN /\ r.present
        /\ f.i < r.times
        /\ ~f.lastResult.ok
        /\ isRetriableError(f.lastResult.v.tag)
  /\ calls' = [calls EXCEPT ![c] = Step(c, "sleep")]
  /\ UNCHANGED <<single, streaming, resolution, frames>>

\* the sleep ends: i += 1 and the next attempt
CallSlept(c) ==
  /\ calls[c].pc = "sleep"
  /\ frames' = [frames EXCEPT ![frameOf(c)].i = @ + 1]
  /\ calls' = [calls EXCEPT ![c] = Step(c, "attempt")]
  /\ UNCHANGED <<single, streaming, resolution>>

\* no retry, or the loop ends: the function returns finalResult
CallReturn(c) ==
  /\ calls[c].pc = "attempted"
  /\ LET f == frames[frameOf(c)]
         r == calls[c].args.retry
     IN /\ ~(/\ r.present
             /\ f.i < r.times
             /\ ~f.lastResult.ok
             /\ isRetriableError(f.lastResult.v.tag))
        /\ calls' = [calls EXCEPT ![c] =
                       [Step(c, "returned") EXCEPT !.result = f.lastResult,
                                                   !.final = f]]
  /\ UNCHANGED <<single, streaming, resolution, frames>>

ConcurrentNext ==
  \E c \in CallIds :
    \/ CallInvoke(c)
    \/ CallFetch(c)
    \/ CallResponded(c)
    \/ CallHandled(c)
    \/ CallRetry(c)
    \/ CallSlept(c)
    \/ CallReturn(c)

ConcurrentSpec == ConcurrentInit /\ [][ConcurrentNext]_vars

\* ================================================================== buildUrl
\* buildUrl on its own, for path templates, params and queries written as
\* sequences of characters and entries in property order.  The characters
\* used need no escaping, so the URL is kept as its pathname and its list of
\* search parameters.
MaxParams == 2

JsUndefined == [t |-> "undefined"]
JsArray(items) == [t |-> "array", items |-> items]

\* v !== null && v !== undefined
Nullish(v) == v.t \in {"null", "undefined"}

\* v.toString() for strings and the numbers used here
toString(v) ==
  IF v.t = "string" THEN v.v
  ELSE IF v.v = 0 THEN <<"0">>
  ELSE <<"7">>

\* v?.toString() || ""
toStringOrEmpty(v) == IF Nullish(v) THEN <<>> ELSE toString(v)

\* String.prototype.replace(pattern, replacement) with a string pattern:
\* the first occurrence only
replace(str, pattern, replacement) ==
  LET At(k) == k + Len(pattern) - 1 <= Len(str)
               /\ SubSeq(str, k, k + Len(pattern) - 1) = pattern
  IN IF \E k \in 1..Len(str) : At(k)
     THEN LET k == CHOOSE k \in 1..Len(str) :
                     At(k) /\ \A j \in 1..(k - 1) : ~At(j)
          IN SubSeq(str, 1, k - 1) \o replacement
             \o SubSeq(str, k + Len(pattern), Len(str))
     ELSE str

\* for (const [k, v] of entries) url.pathname = url.pathname.replace(...),
\* over the entries whose value is neither null nor undefined
RECURSIVE replaceParams(_, _)
replaceParams(pathname, entries) ==
  IF entries = <<>> THEN pathname
  ELSE LET e == Head(entries)
       IN IF Nullish(e.v) THEN replaceParams(pathname, Tail(entries))
          ELSE replaceParams(
                 replace(pathname, <<":">> \o e.k, toStringOrEmpty(e.v)),
                 Tail(entries))

\* url.searchParams.append for the entries of the query, arrays item by item
RECURSIVE appendItems(_, _)
appendItems(k, items) ==
  IF items = <<>> THEN <<>>
  ELSE <<[k |-> k, v |-> toString(Head(items))]>>
       \o appendItems(k, Tail(items))

RECURSIVE appendQuery(_)
appendQuery(entries) ==
  IF entries = <<>> THEN <<>>
  ELSE LET e == Head(entries)
       IN (IF Nullish(e.v) THEN <<>>
           ELSE IF e.v.t = "array" THEN appendItems(e.k, e.v.items)
           ELSE <<[k |-> e.k, v |-> toStringOrEmpty(e.v)]>>)
          \o appendQuery(Tail(entries))

buildUrl(args) ==
  [pathname |-> replaceParams(args.path, args.params),
   search |-> appendQuery(args.query)]

\* the templates, params objects and queries buildUrl is called with
PathTemplates ==
  { <<"/", "t">>,
    <<"/", "t", "/", ":", "a">>,
    <<"/", ":", "a", "/", ":", "b">>,
    <<"/", ":", "a", "/", "x", "/", ":", "a">>,
    <<"/", ":", "a", "b", "/", ":", "a">> }

ParamNames == <<(<<"a">>), (<<"b">>), (<<"a", "b">>)>>
ParamValues == <<JsString(<<"1">>), JsNumber(7), JsNull, JsUndefined>>

\* params objects of up to n properties, as <<name, value>> index pairs
RECURSIVE ParamShapes(_)
ParamShapes(n) ==
  IF n = 0 THEN {<<>>}
  ELSE LET shorter == ParamShapes(n - 1)
       IN shorter \cup
          { Append(o, <<name, value>>) :
              o \in {x \in shorter : Len(x) = n - 1},
              name \in DOMAIN ParamNames, value \in DOMAIN ParamValues }

DistinctKeys(o) ==
  \A a, b \in 1..Len(o) : a # b => o[a][1] # o[b][1]

ParamObject(shape) ==
  [n \in 1..Len(shape) |->
     [k |-> ParamNames[shape[n][1]], v |-> ParamValues[shape[n][2]]]]

Queries ==
  << <<>>,
     <<[k |-> <<"q">>, v |-> JsNumber(7)]>>,
     <<[k |-> <<"q">>, v |-> JsNull], [k |-> <<"r">>, v |-> JsNumber(0)]>>,
     <<[k |-> <<"q">>,
        v |-> JsArray(<<JsString(<<"1">>), JsString(<<"2">>)>>)],
       [k |-> <<"r">>, v |-> JsUndefined],
       [k |-> <<"s">>, v |-> JsString(<<"1">>)]>>,
     <<[k |-> <<"q">>, v |-> JsArray(<<>>)],
       [k |-> <<"r">>, v |-> JsString(<<>>)]>> >>

UrlInit ==
  /\ plugins = <<>>
  /\ endpoint = GetPlain
  /\ validateInput = TRUE
  /\ validateOutput = TRUE
  /\ requestOptions = NoOptions
  /\ errorSchema = FALSE
  /\ shouldValidateError = "undefined"
  /\ pc = "buildUrl"
  /\ schemaOptions = [input |-> TRUE, params |-> TRUE, query |-> TRUE]
  /\ retry = NoRetry
  /\ current = NoCtx
  /\ stableCtx = NoCtx
  /\ initSnapshot = Deref(NoCtx, <<>>)
  /\ ctx = NoCtx
  /\ heap = <<>>
  /\ response = Undefined
  /\ lastResponse = Undefined
  /\ lastResult = NoResult
  /\ i = 0
  /\ pi = 0
  /\ attempts = 0
  /\ fetchCalls = 0
  /\ log = <<>>
  /\ thrown = {}
  /\ result = NoResult
  /\ StreamingIdle
  /\ ConcurrentIdle
  /\ SignalIdle
  /\ PreviousIdle
  /\ \E path \in PathTemplates, query \in DOMAIN Queries :
       \E shape \in {o \in ParamShapes(MaxParams) : DistinctKeys(o)} :
         urlArgs = [path |-> path, params |-> ParamObject(shape),
                    query |-> Queries[query]]
  /\ resolvedUrl = <<>>

\* const resolvedUrl = buildUrl({baseUrl, params, path, query})
BuildUrl ==
  /\ pc = "buildUrl"
  /\ resolvedUrl' = buildUrl(urlArgs)
  /\ pc' = "resolved"
  /\ UNCHANGED <<plugins, endpoint, validateInput, validateOutput,
                 requestOptions, errorSchema, shouldValidateError,
                 schemaOptions, retry, current, stableCtx, initSnapshot, ctx,
                 heap, response, lastResponse, lastResult, i, pi, attempts,
                 fetchCalls, log, thrown, result, streaming, concurrent, signal,
                 previous, urlArgs>>

UrlNext == BuildUrl

UrlSpec == UrlInit /\ [][UrlNext]_vars

\* ============================================================= echoed input
\* A call whose transport answers with the request body it was sent: the
\* input goes through its schema, JSON.stringify, the transport, JSON.parse
\* and the output schema.  Values are JSON objects, schemas are z.object
\* schemas.
Keys == {"title", "note"}
PropertyTypes == {"string", "number"}

Property(k, t) == [k |-> k, t |-> t]

DistinctProperties(o) == \A a, b \in o : a.k = b.k => a = b

\* the objects a caller passes: a property holds a string, a number or
\* undefined
Objects ==
  { o \in SUBSET { Property(k, t) : k \in Keys,
                                    t \in PropertyTypes \cup {"undefined"} } :
      DistinctProperties(o) }

\* z.object({...}): the keys the schema declares, each with its type
ObjectSchemas ==
  { o \in SUBSET { Property(k, t) : k \in Keys, t \in PropertyTypes } :
      DistinctProperties(o) }

\* schema.safeParse(value) of a z.object schema: it succeeds when every
\* declared key holds a value of its type, and its data holds the declared
\* keys only
zodSafeParse(schema, value) ==
  [success |-> \A d \in schema : d \in value,
   data |-> {x \in value : \E d \in schema : d.k = x.k}]

\* JSON.stringify(value): properties that hold undefined are left out
JSONstringify(value) ==
  [t |-> "json", properties |-> {x \in value : x.t # "undefined"}]

\* JSON.parse(text) of a text JSON.stringify wrote
JSONparseObject(jsonText) == jsonText.properties

\* the value the handler was given is returned in place of the schema's data
handleJsonValue_unparsed(r, schema, vOutput) ==
  IF ~ResponseOk(r) THEN ResultErr(ApiErrorOf(r))
  ELSE LET json == JSONparseObject(r.text) IN
       IF ~vOutput THEN ResultOk(json)
       ELSE IF ~zodSafeParse(schema, json).success
       THEN ResultErr(Error("OutputValidationError", r.n))
       ELSE ResultOk(json)

\* handleJsonResponse on a response whose text is JSON
handleJsonValue(r, schema, vOutput) ==
  IF ~ResponseOk(r) THEN ResultErr(ApiErrorOf(r))
  ELSE LET json == JSONparseObject(r.text) IN
       IF ~vOutput THEN ResultOk(json)
       ELSE LET parsed == zodSafeParse(schema, json) IN
            IF ~parsed.success
            THEN ResultErr(Error("OutputValidationError", r.n))
            ELSE ResultOk(parsed.data)

EchoStatuses == {200, 201, 500}

EchoInit ==
  /\ plugins = <<>>
  /\ \E inputSchema \in ObjectSchemas, output \in ObjectSchemas :
       endpoint = [method |-> "POST", input |-> inputSchema,
                   output |-> output, params |-> FALSE, query |-> FALSE,
                   stream |-> FALSE]
  /\ validateInput \in BOOLEAN
  /\ validateOutput \in BOOLEAN
  /\ requestOptions = NoOptions
  /\ errorSchema = FALSE
  /\ shouldValidateError = "undefined"
  /\ pc = "idle"
  /\ \E supplied \in Objects : schemaOptions = [input |-> supplied]
  /\ retry = NoRetry
  /\ current = NoCtx
  /\ stableCtx = NoCtx
  /\ initSnapshot = Deref(NoCtx, <<>>)
  /\ ctx = NoCtx
  /\ heap = <<>>
  /\ response = Undefined
  /\ lastResponse = Undefined
  /\ lastResult = NoResult
  /\ i = 0
  /\ pi = 0
  /\ attempts = 0
  /\ fetchCalls = 0
  /\ log = <<>>
  /\ thrown = {}
  /\ result = NoResult
  /\ AsideIdle

echoed == <<plugins, endpoint, validateInput, validateOutput, requestOptions,
            errorSchema, shouldValidateError, schemaOptions, retry, current,
            initSnapshot, heap, i, pi, log, thrown, aside>>

\* validateSchemaOptions on the input, then body = JSON.stringify(validatedInput)
EchoInvoke ==
  /\ pc = "idle"
  /\ LET inputResult == zodSafeParse(endpoint.input, schemaOptions.input)
         validatedInput == IF validateInput THEN inputResult.data
                           ELSE schemaOptions.input
     IN IF validateInput /\ ~inputResult.success
        THEN /\ result' = ResultErr(InputValidationError("Invalid input"))
             /\ pc' = "done"
             /\ UNCHANGED <<stableCtx, ctx, attempts>>
        ELSE /\ stableCtx' = Ctx("resolved", endpoint.method, 0,
                                 JSONstringify(validatedInput), {})
             /\ ctx' = stableCtx'
             /\ attempts' = 1
             /\ pc' = "onRequest"
             /\ UNCHANGED result
  /\ UNCHANGED <<echoed, response, lastResponse, lastResult, fetchCalls>>

\* the transport answers with the body it received
EchoFetch ==
  /\ pc = "onRequest"
  /\ fetchCalls' = fetchCalls + 1
  /\ \E status \in EchoStatuses :
       response' = [type |-> "response", tag |-> "echo", n |-> attempts,
                    by |-> 0, status |-> status, msg |-> "",
                    text |-> ctx.body]
  /\ pc' = "onResponse"
  /\ UNCHANGED <<echoed, stableCtx, ctx, lastResponse, lastResult, attempts,
                 result>>

\* lastResponse = response; handleJsonResponse; return finalResult
EchoHandle ==
  /\ pc = "onResponse"
  /\ lastResponse' = response
  /\ lastResult' = handleJsonValue(response, endpoint.output, validateOutput)
  /\ result' = lastResult'
  /\ pc' = "done"
  /\ UNCHANGED <<echoed, stableCtx, ctx, response, attempts, fetchCalls>>

EchoNext == EchoInvoke \/ EchoFetch \/ EchoHandle

EchoSpec == EchoInit /\ [][EchoNext]_vars

\* ================================================================ claims
\* indices of the log entries of one kind
Of(kind) == {k \in DOMAIN log : log[k].kind = kind}

\* the plugins whose hook `kind` is in the log, in log order
Fired(kind) ==
  LET sel == SelectSeq(log, LAMBDA e : e.kind = kind)
  IN [k \in 1..Len(sel) |-> sel[k].plugin]

\* the same, for the entries logged during attempt n
FiredIn(kind, n) ==
  LET sel == SelectSeq(log, LAMBDA e : e.kind = kind /\ e.attempt = n)
  IN [k \in 1..Len(sel) |-> sel[k].plugin]

\* the plugins that define hook `kind`, in registration order
Defining(kind) ==
  SelectSeq([p \in 1..Len(plugins) |-> p], LAMBDA p : Has(plugins[p], kind))

\* the call returned a Result that is not a validation failure
Returned == pc = "done" /\ result.v.tag # "InputValidationError"

\* a supplied value fails the schema the endpoint declares for it
SuppliedValueInvalid ==
  \/ endpoint.input /\ ~schemaOptions.input
  \/ endpoint.params /\ ~schemaOptions.params
  \/ endpoint.query /\ ~schemaOptions.query

\* C1: with input validation enabled, a call whose input, params or query
\* fails its schema returns InputValidationError; the transport is never
\* invoked and no plugin init or hook runs, whatever the retry policy.
C1_InvalidInputStopsBeforePipeline ==
  (pc # "idle" /\ validateInput /\ SuppliedValueInvalid) =>
    /\ pc = "done"
    /\ ~result.ok /\ result.v.tag = "InputValidationError"
    /\ fetchCalls = 0 /\ attempts = 0
    /\ log = <<>> /\ thrown = {}

C1_Witness ==
  /\ pc = "done" /\ validateInput /\ Len(plugins) > 0
  /\ schemaOptions.input /\ schemaOptions.params
  /\ endpoint.query /\ ~schemaOptions.query
  /\ retry.present /\ retry.times > 0 /\ retry.shouldRetry = "undefined"

\* every answer shouldRetry gave during the call was true
AnswersAllTrue == \A k \in Of("shouldRetry") : log[k].a3 = Bool(TRUE)

\* C2: with times = n (a retry count, n >= 0), attempts that always fail
\* with FetchError or ApiError and shouldRetry always true, the call makes
\* exactly n + 1 attempts and returns the error of the last attempt.
C2_ExhaustedRetriesReturnLastError ==
  (/\ pc = "done" /\ retry.present /\ retry.times >= 0
   /\ ~result.ok /\ result.v.tag \in RetriableTags
   /\ AnswersAllTrue) =>
    /\ attempts = retry.times + 1
    /\ fetchCalls = attempts
    /\ result.v.n = attempts

C2_Witness ==
  /\ pc = "done" /\ retry.present /\ retry.times = MaxTimes
  /\ ~result.ok /\ result.v.tag = "ApiError" /\ AnswersAllTrue
  /\ attempts = MaxTimes + 1 /\ Cardinality(Of("shouldRetry")) = MaxTimes

\* C3: with a retry policy times = n the number of attempts (and of
\* transport calls) never exceeds n + 1, whatever the outcomes and the
\* answers of shouldRetry; with n <= 0 exactly one attempt is made.
C3_AttemptsBounded ==
  retry.present =>
    /\ attempts <= (IF retry.times > 0 THEN retry.times ELSE 0) + 1
    /\ fetchCalls <= attempts
    /\ (retry.times <= 0 /\ (pc = "terminal" \/ Returned)) =>
         attempts = 1 /\ fetchCalls = 1

C3_Witness ==
  /\ Returned /\ retry.present /\ retry.times = -1
  /\ ~result.ok /\ result.v.tag = "FetchError" /\ attempts = 1

\* C4: an attempt that ends in ParseError or OutputValidationError is never
\* followed by another attempt, and neither shouldRetry nor an onRetry hook
\* is ever invoked with such an error.
C4_TerminalErrorsNeverRetried ==
  /\ \A k \in Of("shouldRetry") \cup Of("onRetry") :
       log[k].a2.type = "error" /\ log[k].a2.tag \notin TerminalTags
  /\ (pc = "onRetry" \/ (attempts >= 2 /\ pc \in {"onRequest", "onResponse"})) =>
       ~lastResult.ok /\ lastResult.v.tag \notin TerminalTags
  /\ (pc \in {"terminal", "done"} /\ ~lastResult.ok
        /\ lastResult.v.tag \in TerminalTags) =>
       lastResult.v.n = attempts

C4_Witness ==
  /\ pc = "done" /\ retry.present /\ retry.shouldRetry = "undefined"
  /\ ~result.ok /\ result.v.tag \in TerminalTags
  /\ attempts = 1 /\ retry.times >= 1

\* shouldRetry answered false for the error of the first attempt
FirstAnswerFalse ==
  \E k \in Of("shouldRetry") : log[k].attempt = 1 /\ log[k].a3 = Bool(FALSE)

\* C5: if shouldRetry returns false for the first attempt's error there is
\* no retry: one attempt, no onRetry hook, no sleep, and that first error is
\* what the call returns, whatever `times` is.
C5_FirstRefusalStopsRetry ==
  FirstAnswerFalse =>
    /\ attempts = 1 /\ fetchCalls = 1
    /\ Of("onRetry") = {} /\ Of("sleep") = {}
    /\ pc \in {"terminal", "done"}
    /\ ~lastResult.ok /\ lastResult.v.n = 1
    /\ \A k \in Of("shouldRetry") : log[k].a2 = lastResult.v
    /\ (pc = "done" => result = lastResult)

C5_Witness ==
  /\ pc = "done" /\ FirstAnswerFalse /\ retry.times = MaxTimes
  /\ Defining("onRetry") # <<>>

\* C6: a call always resolves to a Result: an exception of the transport or
\* of any plugin hook (init, onRequest, onResponse, onRetry, onSuccess,
\* onError) never makes the endpoint function reject.
C6_CallNeverRejects == pc # "rejected"

MutatingMembers == {"init", "onRequest", "onResponse"}

\* C7: an exception thrown by an onSuccess, onError or onRetry hook is
\* discarded: the same hook of every later plugin still runs, the retry loop
\* goes on to its sleep and next attempt, the call does not reject because
\* of it and returns the last attempt's result.
C7_ObserverExceptionsDiscarded ==
  /\ \A k \in Of("sleep") :
       FiredIn("onRetry", log[k].attempt) = Defining("onRetry")
  /\ pc \notin {"onRetry", "idle"} =>
       /\ Cardinality({k \in Of("shouldRetry") : log[k].a3 = Bool(TRUE)})
            = Cardinality(Of("sleep"))
       /\ (attempts > 0 => attempts = Cardinality(Of("sleep")) + 1)
  /\ pc = "rejected" => \E h \in thrown : h.kind \in MutatingMembers
  /\ Returned =>
       /\ Fired(IF result.ok THEN "onSuccess" ELSE "onError")
            = Defining(IF result.ok THEN "onSuccess" ELSE "onError")
       /\ result = lastResult
       /\ result.v.n = attempts

C7_Witness ==
  /\ Returned /\ Len(plugins) = 2 /\ attempts = 2
  /\ Hook("onRetry", 1) \in thrown /\ Hook("onError", 1) \in thrown
  /\ Fired("onRetry") = <<1, 2>> /\ Fired("onError") = <<1, 2>>

\* C8: once the final result of a validated call is computed, exactly one
\* of onSuccess / onError fires, once per plugin that defines it and in
\* registration order: onSuccess iff the returned Result is a success,
\* onError with the very error returned; none fires before the last attempt
\* has completed, nor more than once per call.
C8_OneTerminalNotification ==
  /\ \A k \in Of("onSuccess") \cup Of("onError") :
       /\ pc \in {"terminal", "done"}
       /\ log[k].attempt = attempts
       /\ \A j \in Of("fetch") \cup Of("sleep") \cup Of("onRetry") : j < k
  /\ Returned =>
       /\ result.ok =>
            Fired("onSuccess") = Defining("onSuccess") /\ Of("onError") = {}
       /\ ~result.ok =>
            /\ Fired("onError") = Defining("onError") /\ Of("onSuccess") = {}
            /\ \A k \in Of("onError") : log[k].a2 = result.v

C8_Witness ==
  /\ Returned /\ result.ok /\ attempts = 2
  /\ Fired("onSuccess") = <<1, 2>>

\* C9: each onSuccess hook receives the stable context, the raw response of
\* the last attempt (never the placeholder) and the success value that the
\* call returns.
C9_OnSuccessArguments ==
  \A k \in Of("onSuccess") :
    /\ log[k].a2 = lastResponse
    /\ lastResponse.type = "response" /\ lastResponse.n = attempts
    /\ lastResponse # PlaceholderResponse
    /\ lastResult.ok /\ log[k].a3 = lastResult.v

\* C10: what onRequest hooks wrote into the context during attempt k (new or
\* replaced fields, in-place changes of the header map) is not in the context
\* the onRequest hooks receive at attempt k+1: every attempt starts from the
\* stable context exactly as init produced it.
C10_AttemptStartsFromInitOutput ==
  (pc = "onRequest" /\ pi = 1) => Deref(ctx, heap) = initSnapshot

\* the observer hook the call is about to invoke, if any
ObserverDue ==
  /\ pc \in {"onRetry", "terminal"}
  /\ pi <= Len(plugins)
  /\ Has(plugins[pi], IF pc = "onRetry" THEN "onRetry"
                      ELSE IF lastResult.ok THEN "onSuccess" ELSE "onError")

\* C11: the context handed to the onRetry, onSuccess and onError hooks is the
\* output of the init chain (url, method, headers, body, passthrough fields):
\* nothing an onRequest or onResponse hook did during an attempt shows in it.
C11_ObserversSeeInitOutput ==
  ObserverDue => Deref(stableCtx, heap) = initSnapshot

\* the init entries of the log, in order
InitLog == SelectSeq(log, LAMBDA e : e.kind = "init")

\* C12: each plugin's init runs exactly once per call, after validation and
\* the URL/option merge and before the first attempt's onRequest, never again
\* on a retry; the first init receives the merged pair and every later init
\* receives what the init before it returned, the last output being the
\* stable context.
C12_InitOnceAndThreaded ==
  /\ \A k \in Of("init") :
       /\ log[k].attempt = 0
       /\ \A j \in DOMAIN log : log[j].kind # "init" => k < j
  /\ pc = "init" =>
       /\ attempts = 0 /\ fetchCalls = 0 /\ heap # <<>>
       /\ ~(validateInput /\ SuppliedValueInvalid)
  /\ attempts = 0 =>
       Fired("init") = SubSeq(Defining("init"), 1, Len(Fired("init")))
  /\ attempts >= 1 =>
       /\ Fired("init") = Defining("init")
       /\ initSnapshot = (IF InitLog = <<>>
                          THEN Deref(initArgs(endpoint, mergedRestOptions), <<mergedHeaders>>)
                          ELSE InitLog[Len(InitLog)].a3)
  /\ \A k \in DOMAIN InitLog :
       InitLog[k].a2 = (IF k = 1
                        THEN Deref(initArgs(endpoint, mergedRestOptions), <<mergedHeaders>>)
                        ELSE InitLog[k - 1].a3)

C12_Witness ==
  /\ pc = "done" /\ attempts = MaxTimes + 1
  /\ plugins = <<"timing", "mutator">>
  /\ Fired("init") = <<1, 2>>
  /\ InitLog[2].a2.extra # {} /\ InitLog[2].a3 # InitLog[2].a2

\* the log entries of attempt n itself (its onRequest, transport call and
\* onResponse entries)
AttemptEntries(n) ==
  {k \in DOMAIN log : /\ log[k].attempt = n
                      /\ log[k].kind \in {"onRequest", "fetch", "onResponse"}}

\* C13: in a retried call the order is: attempt n fails with a retriable
\* error, shouldRetry(error) answers true, the onRetry hook of every plugin
\* runs with the stable context and that error, the backoff sleep of retry
\* index n - 1 elapses, attempt n + 1 starts.  Each plugin's onRetry fires
\* once per retry (attempts - 1 times) and never for a failure that no
\* attempt follows.
C13_RetryEventOrder ==
  /\ \A k \in Of("sleep") :
       LET n == log[k].attempt IN
       /\ \E s \in Of("shouldRetry") :
            /\ s < k /\ log[s].attempt = n /\ log[s].a3 = Bool(TRUE)
            /\ log[s].a2.tag \in RetriableTags /\ log[s].a2.n = n
            /\ \A f \in AttemptEntries(n) : f < s
            /\ \E f \in AttemptEntries(n) : log[f].kind = "fetch"
            /\ \A r \in Of("onRetry") :
                 log[r].attempt = n =>
                   /\ s < r /\ r < k
                   /\ log[r].a2 = log[s].a2
                   /\ log[r].ctx = stableCtx
       /\ FiredIn("onRetry", n) = Defining("onRetry")
       /\ log[k].ms = getRetryDelay(retry, n - 1)
       /\ \A j \in AttemptEntries(n + 1) : k < j
       /\ n < attempts
  /\ \A r \in Of("onRetry") :
       log[r].attempt < attempts \/ (pc = "onRetry" /\ log[r].attempt = attempts)
  /\ (pc # "onRetry" /\ attempts >= 1) =>
       \A p \in 1..Len(plugins) :
         Has(plugins[p], "onRetry") =>
           Cardinality({r \in Of("onRetry") : log[r].plugin = p}) = attempts - 1

C13_Witness ==
  /\ pc = "done" /\ attempts = 3
  /\ Fired("onRetry") = <<1, 2, 1, 2>>
  /\ Cardinality(Of("sleep")) = 2
  /\ \E k \in Of("sleep") : log[k].ms = 2 * DelayMs

\* the delays slept so far, in order
Delays ==
  LET sel == SelectSeq(log, LAMBDA e : e.kind = "sleep")
  IN [k \in 1..Len(sel) |-> sel[k].ms]

\* C14: the delay slept before the i-th retry (i from 0) is delayMs for
\* constant backoff, delayMs * (i + 1) for linear and delayMs * 2^i for
\* exponential; with delayMs = 100 three retries sleep 100, 100, 100 /
\* 100, 200, 300 / 100, 200, 400.
C14_BackoffDelays ==
  /\ \A k \in DOMAIN Delays :
       Delays[k] = (CASE retry.backoff = "constant" -> retry.delayMs
                      [] retry.backoff = "linear" -> retry.delayMs * k
                      [] retry.backoff = "exponential" ->
                           retry.delayMs * 2^(k - 1))
  /\ (retry.delayMs = 100 /\ Len(Delays) = 3) =>
       Delays = (CASE retry.backoff = "constant" -> <<100, 100, 100>>
                   [] retry.backoff = "linear" -> <<100, 200, 300>>
                   [] retry.backoff = "exponential" -> <<100, 200, 400>>)

C14_Witness ==
  /\ pc = "withRetry.done" /\ retry.backoff = "exponential"
  /\ retry.delayMs = 100 /\ Delays = <<100, 200, 400>>

\* header names are case-insensitive: the name a header goes by on the wire
Lower(name) ==
  CASE name = "Authorization" -> "authorization"
    [] name = "X-Layer" -> "x-layer"
    [] name = "Content-Type" -> "content-type"
    [] OTHER -> name

\* the layers of a merge, lowest priority first
HeaderLayers ==
  <<requestOptions.authHeader, requestOptions.globalHeaders,
    requestOptions.endpointHeaders, requestOptions.callHeaders>>

RestLayers ==
  <<requestOptions.globalRestOptions, requestOptions.endpointRestOptions,
    requestOptions.callRestOptions>>

\* the values the highest-priority layer that sets `name` gives it
Winner(layers, name, Same(_, _)) ==
  LET setting == {l \in DOMAIN layers : \E x \in layers[l] : Same(x.name, name)}
  IN IF setting = {} THEN {}
     ELSE LET top == CHOOSE l \in setting : \A m \in setting : m <= l
          IN {x.v : x \in {y \in layers[top] : Same(y.name, name)}}

SameHeader(a, b) == Lower(a) = Lower(b)
SameKey(a, b) == a = b

\* C15: for every header name the outgoing request carries the value of the
\* highest-priority layer that sets it (auth < global < endpoint < call), a
\* header set by one layer only goes out unmodified, the other options merge
\* with priority global < endpoint < call, and Content-Type goes out as
\* application/json whatever a layer supplies for it.
C15_MergePriority ==
  pc = "merged" =>
    /\ \A name \in {Lower(nm) : nm \in HeaderNames} :
         {x.v : x \in {y \in heap[1] : SameHeader(y.name, name)}}
           = (IF name = "content-type" THEN {"application/json"}
              ELSE Winner(HeaderLayers, name, SameHeader))
    /\ \A name \in RestNames \ {"retry"} :
         {x.v : x \in {y \in current.extra : y.name = name}}
           = Winner(RestLayers, name, SameKey)

\* a retry object sits in the client-global or endpoint-level options
ScopedRetry ==
  \E x \in requestOptions.globalRestOptions
             \cup requestOptions.endpointRestOptions : x.name = "retry"

\* C16: a call whose per-call options carry no retry policy makes exactly one
\* attempt and returns its result, also when the client-global or
\* endpoint-level request options hold a retry object.
C16_NoCallRetryMeansOneAttempt ==
  (~retry.present /\ pc # "idle") =>
    /\ attempts <= 1 /\ fetchCalls <= 1
    /\ Of("shouldRetry") = {} /\ Of("onRetry") = {} /\ Of("sleep") = {}
    /\ (pc = "terminal" \/ Returned) =>
         attempts = 1 /\ lastResult.v.n = 1
    /\ Returned => result = lastResult

C16_Witness ==
  /\ Returned /\ ~retry.present /\ ScopedRetry
  /\ ~result.ok /\ result.v.tag \in RetriableTags
  /\ attempts = 1 /\ Defining("onRetry") # <<>>

\* the object has a top-level `retry` key that came from the option merge
CarriesRetry(fields) ==
  \E x \in fields : "name" \in DOMAIN x /\ x.name = "retry"

\* C17: a retry entry of the client-global or endpoint-level request options
\* is removed before the merge: it is not in the options plugin init
\* receives, nor in the stable or per-attempt context, nor in the options
\* the transport is called with.
C17_ScopedRetryStripped ==
  /\ ~CarriesRetry(current.extra)
  /\ ~CarriesRetry(stableCtx.extra)
  /\ ~CarriesRetry(ctx.extra)
  /\ \A k \in Of("init") : ~CarriesRetry(log[k].a2.extra)

\* the response the handler has just decided on, and its body
Handled == pc = "attempted" /\ lastResponse.type = "response"
Readable == lastResponse.tag \notin {"unreadable", "errUnreadable"}
Status2xx == lastResponse.status \in 200..299
JsonBody ==
  lastResponse.tag \in {"okValid", "okMismatch", "errJson", "errJsonMismatch"}

\* C18: a non-streaming attempt is decided in this order: body unreadable ->
\* ParseError; else status outside 2xx -> ApiError; else body not JSON ->
\* ParseError; else validation enabled and the schema rejects the value ->
\* OutputValidationError; else success with the validated value, or with
\* the parsed value when validation is disabled.
C18_JsonHandlerOrder ==
  (Handled /\ ~endpoint.stream) =>
    IF ~Readable THEN ~lastResult.ok /\ lastResult.v.tag = "ParseError"
    ELSE IF ~Status2xx THEN ~lastResult.ok /\ lastResult.v.tag = "ApiError"
    ELSE IF ~JsonBody THEN ~lastResult.ok /\ lastResult.v.tag = "ParseError"
    ELSE IF validateOutput /\ lastResponse.tag # "okValid"
    THEN ~lastResult.ok /\ lastResult.v.tag = "OutputValidationError"
    ELSE /\ lastResult.ok
         /\ lastResult.v.tag = (IF validateOutput THEN "validated" ELSE "parsed")

C18_Witness ==
  /\ Handled /\ ~endpoint.stream /\ validateOutput
  /\ lastResponse.tag = "okNotJson" /\ lastResponse.status = 404
  /\ lastResult.v.tag = "ApiError"

C21_ApiErrorStatusAtLeast400 ==
  (Handled /\ ~lastResult.ok /\ lastResult.v.tag = "ApiError") =>
    /\ lastResult.v.status >= 400
    /\ lastResponse.status >= 400

\* the streaming handler has returned
StreamHandled == pc = "returned" /\ endpoint.stream

\* C22 (as stated): for a streaming endpoint a response with a status
\* outside 2xx gives an ApiError, the byte reader is never acquired and no
\* lazy sequence is created; the reader is acquired only on a 2xx response.
C22_ErrorStatusGivesApiError ==
  StreamHandled =>
    /\ ~Status2xx =>
         /\ ~lastResult.ok /\ lastResult.v.tag = "ApiError"
         /\ ~reader.acquired /\ stream.state = "none"
    /\ reader.acquired => Status2xx

\* C22 (amended): for a streaming endpoint a response with a status outside
\* 2xx gives an error, an ApiError when its body can be read as text and a
\* ParseError when it cannot; the byte reader is never acquired and no lazy
\* sequence is created; the reader is acquired only on a 2xx response.
C22_ErrorStatusNeverOpensReader ==
  StreamHandled =>
    /\ ~Status2xx =>
         /\ ~lastResult.ok
         /\ lastResult.v.tag = (IF Readable THEN "ApiError" ELSE "ParseError")
         /\ ~reader.acquired /\ reader.reads = 0 /\ stream.state = "none"
    /\ reader.acquired => Status2xx

C22_Witness ==
  /\ StreamHandled /\ lastResponse.status = 404 /\ Readable
  /\ lastResult.v.tag = "ApiError" /\ lastResult.v.status = 404
  /\ ~reader.acquired /\ stream.state = "none"

\* the consumer holds a stream it has not cancelled
Consuming == stream.state # "none" /\ ~consumer.cancelled

IsPrefix(a, b) == Len(a) <= Len(b) /\ a = SubSeq(b, 1, Len(a))

\* the values of a text that arrives as one chunk followed by end-of-stream
Unsplit(t) ==
  LET lines == split(t)
      last == lines[Len(lines)]
  IN lineValues(SubSeq(lines, 1, Len(lines) - 1), outputSchema,
                validateOutput)
     \o (IF trim(last) # <<>>
         THEN lineValues(<<last>>, outputSchema, validateOutput) ELSE <<>>)

\* a read of the consumer is waiting and no pull is in progress to serve it
Starved ==
  stream.state = "readable" /\ stream.readRequests > 0 /\ ~stream.pulling

\* what the consumer has received is a leading part of the values of the
\* unsplit text, and all of them once the sequence has reported done
SplitValuesAgree ==
  Consuming =>
    /\ IsPrefix(consumer.delivered, Unsplit(body))
    /\ consumer.done => consumer.delivered = Unsplit(body)

\* C23: however the text is cut into chunks, the consumer receives the
\* values of the unsplit text: what it has received is always a leading
\* part of them (no partial line is emitted), when the sequence reports
\* done it has received all of them, and a read that waits for the next
\* value is being served by a pull.
C23_SplitInvariance ==
  /\ SplitValuesAgree
  /\ Consuming => ~Starved

\* the payloads of the data lines that parse as JSON and, when validation
\* is enabled, satisfy the output schema: their parsed values, in line order
RECURSIVE ValidValues(_)
ValidValues(lines) ==
  IF lines = <<>> THEN <<>>
  ELSE LET payload == extractDataLine(Head(lines))
           parsed == JSONparse(payload.v)
       IN (IF /\ payload # JsNull
              /\ parsed.ok
              /\ validateOutput => safeParse(outputSchema, parsed.v)
           THEN <<parsed.v>> ELSE <<>>)
          \o ValidValues(Tail(lines))

\* C24: with an output schema, every payload that parses as JSON and (when
\* validation is enabled) satisfies the schema is emitted exactly once, in
\* arrival order, whatever value it parses to: the consumer receives these
\* values in order, and all of them when the sequence reports done.
C24_ValidPayloadsEmitted ==
  (Consuming /\ outputSchema # "undefined") =>
    /\ IsPrefix(consumer.delivered, ValidValues(split(body)))
    /\ consumer.done => consumer.delivered = ValidValues(split(body))

\* a data line of the body has a payload that is not JSON or that the
\* schema rejects
HasInvalidPayload ==
  \E k \in 1..Len(split(body)) :
    LET payload == extractDataLine(split(body)[k])
        parsed == JSONparse(payload.v)
    IN /\ payload # JsNull
       /\ \/ ~parsed.ok
          \/ validateOutput /\ ~safeParse(outputSchema, parsed.v)

\* C25: with an output schema, a payload that fails JSON parsing or schema
\* validation gives no value and no error and does not end the sequence:
\* the sequence is never errored, is closed only at the end of the body,
\* the consumer receives exactly the valid payloads in order, and a read
\* that waits for a later valid payload is being served by a pull.
C25_InvalidPayloadSkipped ==
  (Consuming /\ outputSchema # "undefined" /\ HasInvalidPayload) =>
    /\ stream.state # "errored"
    /\ stream.state = "closed" => chunks = <<>>
    /\ IsPrefix(consumer.delivered, ValidValues(split(body)))
    /\ consumer.done => consumer.delivered = ValidValues(split(body))
    /\ ~Starved

\* the same without the last conjunct
InvalidPayloadDropped ==
  (Consuming /\ outputSchema # "undefined" /\ HasInvalidPayload) =>
    /\ stream.state # "errored"
    /\ stream.state = "closed" => chunks = <<>>
    /\ IsPrefix(consumer.delivered, ValidValues(split(body)))
    /\ consumer.done => consumer.delivered = ValidValues(split(body))

\* two invalid payloads, each in a chunk of its own, have been read and the
\* consumer waits for the valid payload that follows
StalledAfterInvalid ==
  /\ Starved /\ outputSchema = "number" /\ buffer = <<>>
  /\ body = DataLine(<<"x">>) \o DataLine(<<"x">>) \o DataLine(<<"1">>)
  /\ chunks = <<DataLine(<<"1">>)>>

\* the trimmed payloads of the data lines, those with an empty payload or
\* the done marker left out, in line order
RECURSIVE RawPayloads(_)
RawPayloads(lines) ==
  IF lines = <<>> THEN <<>>
  ELSE LET line == Head(lines)
           payload == trim(slice(line, 5))
       IN (IF /\ startsWith(line, DataPrefix)
              /\ payload # <<>>
              /\ payload # DoneMarker
           THEN <<JsString(payload)>> ELSE <<>>)
          \o RawPayloads(Tail(lines))

\* without an output schema the consumer receives the raw payloads, in line
\* order, and all of them once the sequence has reported done; the sequence
\* is closed only at the end of the body
RawPayloadsAgree ==
  (Consuming /\ outputSchema = "undefined") =>
    /\ IsPrefix(consumer.delivered, RawPayloads(split(body)))
    /\ consumer.done => consumer.delivered = RawPayloads(split(body))
    /\ stream.state = "closed" => chunks = <<>>

\* C26: lines without the data: prefix, data lines with an empty payload and
\* done markers emit nothing; a done marker does not end the sequence;
\* without an output schema every other data line emits its trimmed payload
\* as exactly one value, in line order: the consumer receives exactly these
\* payloads, and a read that waits for the next one is being served by a
\* pull.
C26_LineClassification ==
  /\ RawPayloadsAgree
  /\ (Consuming /\ outputSchema = "undefined") => ~Starved

\* a comment line and a data line with an empty payload, each in a chunk of
\* its own, have been read and the consumer waits for the data line that
\* follows
StalledAfterComment ==
  /\ Starved /\ outputSchema = "undefined" /\ buffer = <<>>
  /\ body = <<":">> \o Newline \o DataPrefix \o Newline \o DataPrefix \o <<"2">>
  /\ chunks = <<DataPrefix \o <<"2">>>>

\* C27: after the consumer cancels the sequence, the byte reader is
\* cancelled (unless the body had already ended and the sequence was
\* closed), no further transport read is issued, no further value is
\* delivered and the sequence is closed, so that the next read reports
\* done; also when a transport read was in flight at the cancel.
C27_CancelStopsReading ==
  consumer.cancelled =>
    LET at == consumer.atCancel[1]
    IN /\ at.state = "readable" => reader.cancelled
       /\ reader.reads = at.reads
       /\ consumer.delivered = at.delivered
       /\ stream.state = "closed"
       /\ stream.readRequests = 0
       /\ stream.queue = <<>>

C27_Witness ==
  /\ consumer.cancelled /\ consumer.done
  /\ consumer.atCancel[1].inflight = 1 /\ reader.inflight = 0
  /\ body = DataLine(<<"1">>) /\ chunks = <<>> /\ buffer = <<>>
  /\ consumer.delivered = <<>> /\ reader.cancelled

\* C28 (as stated): a transport read is issued only in response to a pull
\* of the consumer, at most one transport read is outstanding, and for a
\* sequence the consumer never pulls from at most one chunk has been read.
C28_ReadsOnlyOnConsumerPull ==
  /\ reader.reads <= consumer.reads
  /\ reader.inflight <= 1
  /\ consumer.reads = 0 => reader.reads <= 1

\* C28 (amended): a transport read is issued only while no decoded value
\* waits to be delivered: one when the sequence is created, and further
\* ones only after pulls of the consumer (at most two per pull, the second
\* one reading ahead); at most one transport read is outstanding; for a
\* sequence the consumer never pulls from at most one chunk has been read.
C28_ReadsOnlyWhenQueueEmpty ==
  /\ reader.inflight > 0 => stream.queue = <<>>
  /\ reader.reads <= 2 * consumer.reads + 1
  /\ reader.inflight <= 1
  /\ consumer.reads = 0 => reader.reads <= 1
  /\ ~reader.acquired => reader.reads = 0

C28_Witness ==
  /\ consumer.reads = 0 /\ ~consumer.cancelled
  /\ reader.reads = 1 /\ reader.inflight = 0 /\ ~stream.pulling
  /\ stream.queue # <<>> /\ chunks # <<>>

\* what call c does when it runs alone: from attempt k on, with last the
\* last response seen so far
RECURSIVE Alone(_, _, _, _)
Alone(c, args, k, last) ==
  LET outcome == args.script[k]
      answer == TransportResponse(c, k, outcome)
      res == IF outcome = "fetch" THEN ResultErr(Error("FetchError", k))
             ELSE handleJsonResponse(answer, TRUE)
      seen == IF outcome = "fetch" THEN last ELSE answer
  IN IF res.ok \/ ~args.retry.present \/ k > args.retry.times
     THEN [attempts |-> k, i |-> k - 1, lastResponse |-> seen,
           lastResult |-> res, stableCtx |-> StableCtxOf(c, args)]
     ELSE Alone(c, args, k + 1, seen)

\* C29: calls in flight at the same time on one client do not interfere:
\* under every interleaving, the attempt count, retry index, last response,
\* stable context and returned Result of a call are those it has when it
\* runs alone with the same arguments and transport outcomes.
C29_CallsIndependent ==
  \A c \in DOMAIN calls :
    calls[c].pc = "returned" =>
      LET alone == Alone(c, calls[c].args, 1, PlaceholderResponse)
      IN /\ calls[c].final = alone
         /\ calls[c].result = alone.lastResult

C29_Witness ==
  /\ calls # <<>>
  /\ \A c \in {1, 2} : calls[c].pc = "returned" /\ calls[c].overlap
  /\ calls[1].final.attempts = 2 /\ calls[1].result.ok
  /\ calls[2].final.attempts = 2 /\ ~calls[2].result.ok
  /\ calls[1].args.endpoint # calls[2].args.endpoint

\* the template cut at its slashes
RECURSIVE Segments(_)
Segments(path) ==
  IF \A k \in 1..Len(path) : path[k] # "/" THEN <<path>>
  ELSE LET k == CHOOSE k \in 1..Len(path) :
                  path[k] = "/" /\ \A j \in 1..(k - 1) : path[j] # "/"
       IN <<SubSeq(path, 1, k - 1)>> \o Segments(SubSeq(path, k + 1, Len(path)))

\* a segment :name stands for the parameter name; it becomes the string of
\* that parameter's value when the params hold one
Substituted(segment, params) ==
  IF /\ segment # <<>>
     /\ Head(segment) = ":"
     /\ \E k \in 1..Len(params) :
          params[k].k = Tail(segment) /\ ~Nullish(params[k].v)
  THEN LET k == CHOOSE k \in 1..Len(params) : params[k].k = Tail(segment)
       IN IF params[k].v.t = "string" THEN params[k].v.v ELSE <<"7">>
  ELSE segment

RECURSIVE Joined(_, _)
Joined(segments, params) ==
  IF Len(segments) = 1 THEN Substituted(segments[1], params)
  ELSE Substituted(segments[1], params) \o <<"/">>
       \o Joined(Tail(segments), params)

\* the keys and values a query stands for: an array gives its key once per
\* item, null and undefined give nothing
RECURSIVE Pairs(_)
Pairs(query) ==
  IF query = <<>> THEN <<>>
  ELSE LET e == Head(query)
           text(v) == IF v.t = "string" THEN v.v
                      ELSE IF v.v = 0 THEN <<"0">> ELSE <<"7">>
       IN (IF e.v.t \in {"null", "undefined"} THEN <<>>
           ELSE IF e.v.t = "array"
           THEN [k \in 1..Len(e.v.items) |->
                   [k |-> e.k, v |-> text(e.v.items[k])]]
           ELSE <<[k |-> e.k, v |-> text(e.v)]>>)
          \o Pairs(Tail(query))

\* C30: URL resolution replaces every :name placeholder of the template,
\* at each occurrence, by the string of the value of exactly that parameter,
\* does not fail on parameters that are null or undefined, and appends the
\* query with arrays as repeated keys in array order and null or undefined
\* entries left out.
C30_UrlResolution ==
  pc = "resolved" /\ urlArgs # <<>> =>
    /\ resolvedUrl.pathname = Joined(Segments(urlArgs.path), urlArgs.params)
    /\ resolvedUrl.search = Pairs(urlArgs.query)

\* the query part of the statement
QueryAppended ==
  pc = "resolved" /\ urlArgs # <<>> =>
    resolvedUrl.search = Pairs(urlArgs.query)

\* a template with the same placeholder twice has been resolved
RepeatedPlaceholder ==
  /\ pc = "resolved" /\ urlArgs # <<>>
  /\ urlArgs.path = <<"/", ":", "a", "/", "x", "/", ":", "a">>
  /\ urlArgs.params = <<[k |-> <<"a">>, v |-> JsString(<<"1">>)]>>
  /\ resolvedUrl.pathname = <<"/", "1", "/", "x", "/", ":", "a">>

\* the value the transport echoed, once the call has returned
EchoReturned == pc = "done" /\ lastResponse # Undefined /\ ResponseOk(lastResponse)
EchoedValue == lastResponse.text.properties
SatisfiesOutput == \A d \in endpoint.output : d \in EchoedValue

RefusedWith(message) ==
  /\ pc = "done"
  /\ result = ResultErr(InputValidationError(message))
  /\ heap = <<>> /\ current = NoCtx /\ attempts = 0 /\ log = <<>>

\* which of the three checks the supplied values fail, on an endpoint that
\* declares the schema, with validation on
InputFails == endpoint.method # "GET" /\ endpoint.input /\ ~schemaOptions.input
ParamsFail == endpoint.params /\ ~schemaOptions.params
QueryFails == endpoint.query /\ ~schemaOptions.query

\* C32: validation checks input, then params, then query and stops at the
\* first failure: an invalid input gives the input's error whatever params
\* and query are, a valid input with invalid params gives the params' error
\* whatever query is, and the URL and the merged options are built only when
\* all three pass.
C32_ValidationOrder ==
  pc # "idle" /\ validateInput =>
    /\ InputFails => RefusedWith("Invalid input")
    /\ ~InputFails /\ ParamsFail => RefusedWith("Invalid params")
    /\ ~InputFails /\ ~ParamsFail /\ QueryFails => RefusedWith("Invalid query")
    /\ (heap # <<>> \/ current # NoCtx) =>
         ~InputFails /\ ~ParamsFail /\ ~QueryFails

C32_Witness ==
  /\ validateInput /\ InputFails /\ ParamsFail /\ QueryFails
  /\ RefusedWith("Invalid input")

\* the hooks and the transport call of attempt n, in the order they ran
AttemptLog(n) ==
  SelectSeq(log, LAMBDA e : /\ e.attempt = n
                            /\ e.kind \in {"onRequest", "fetch", "onResponse"})

Rank(kind) ==
  CASE kind = "onRequest" -> 1 [] kind = "fetch" -> 2 [] OTHER -> 3

PluginsOf(entries, kind) ==
  LET sel == SelectSeq(entries, LAMBDA e : e.kind = kind)
  IN [k \in 1..Len(sel) |-> sel[k].plugin]

\* the transport answered in attempt n
Answered(entries) ==
  \E k \in 1..Len(entries) :
    entries[k].kind = "fetch" /\ entries[k].a2.type = "response"

\* the response the last step of the attempt handed on
HandedOn(entries) ==
  LET last == entries[Len(entries)]
  IN IF last.kind = "fetch" THEN last.a2 ELSE last.a3

\* C33: within one attempt, onRequest runs for the plugins in registration
\* order, each receiving the context the one before returned; the transport
\* call is built from the context the last one returned; onResponse then runs
\* for the plugins in registration order, each receiving the response the one
\* before returned; and the response handler reads the response the last one
\* returned.
C33_AttemptOrder ==
  \A n \in 1..attempts :
    LET entries == AttemptLog(n)
        requests == PluginsOf(entries, "onRequest")
        responses == PluginsOf(entries, "onResponse")
        over == n < attempts \/ pc \in {"attempted", "onRetry", "terminal", "done"}
    IN
    /\ \A k \in 2..Len(entries) :
         /\ Rank(entries[k - 1].kind) <= Rank(entries[k].kind)
         /\ entries[k].kind = "fetch" => entries[k - 1].kind # "fetch"
         /\ entries[k].kind = "onRequest" => entries[k].a2 = entries[k - 1].a3
         /\ entries[k].kind = "fetch" => entries[k].a3 = entries[k - 1].a3
         /\ entries[k].kind = "onResponse" =>
              entries[k].a2 = HandedOn(SubSeq(entries, 1, k - 1))
    /\ requests = SubSeq(Defining("onRequest"), 1, Len(requests))
    /\ responses = SubSeq(Defining("onResponse"), 1, Len(responses))
    /\ (\E k \in 1..Len(entries) : entries[k].kind = "fetch") =>
         requests = Defining("onRequest")
    /\ responses # <<>> => Answered(entries)
    /\ over /\ Answered(entries) =>
         /\ responses = Defining("onResponse")
         /\ n = attempts =>
              /\ lastResponse = HandedOn(entries)
              /\ lastResult = (IF endpoint.stream
                               THEN handleStreamResponse(HandedOn(entries),
                                                         validateOutput)
                               ELSE handleJsonResponse(HandedOn(entries),
                                                       validateOutput))

C33_Witness ==
  /\ pc = "done" /\ attempts = 2 /\ Len(plugins) = 2
  /\ plugins[1] = "timing" /\ plugins[2] = "mutator"
  /\ Len(AttemptLog(2)) = 5
  /\ lastResponse.by = 2
  /\ result.ok

\* the attempts whose transport call threw
FailedFetches ==
  {k \in DOMAIN log : log[k].kind = "fetch" /\ log[k].a2.type = "error"}

\* C34: when the transport call throws, the attempt yields FetchError, and in
\* that attempt no onResponse hook runs and the response handler is not
\* invoked.
C34_FetchErrorEndsAttempt ==
  \A k \in FailedFetches :
    LET n == log[k].attempt IN
    /\ log[k].a2.tag = "FetchError"
    /\ \A j \in DOMAIN log : log[j].kind = "onResponse" => log[j].attempt # n
    /\ lastResponse.n # n
    /\ n = attempts =>
         /\ lastResult = ResultErr(Error("FetchError", n))
         /\ response = Undefined \/ response.n # n
         /\ pc \in {"attempted", "onRetry", "terminal", "done"}
    /\ n < attempts =>
         \E s \in DOMAIN log :
           /\ log[s].kind = "shouldRetry" /\ log[s].attempt = n
           /\ log[s].a2 = Error("FetchError", n)
    /\ (pc = "done" /\ n = attempts) => result = ResultErr(Error("FetchError", n))

C34_Witness ==
  /\ pc = "done"
  /\ attempts = 2
  /\ Cardinality(FailedFetches) = 1
  /\ \E k \in FailedFetches : log[k].attempt = 2
  /\ \E j \in DOMAIN log : log[j].kind = "onResponse" /\ log[j].attempt = 1
  /\ result = ResultErr(Error("FetchError", 2))

\* pull has processed the transport's end-of-stream
EndOfStreamSeen ==
  ~consumer.cancelled /\ (stream.closeRequested \/ stream.state = "closed")

Emitted == consumer.delivered \o stream.queue

\* C35: when the transport signals end-of-stream, what is left in the buffer
\* is split into lines and processed by the rules of completed lines (a last
\* data line without a newline is emitted) before the sequence is closed;
\* after the close no value is emitted and no transport read is issued.
C35_EndOfStreamFlush ==
  /\ [](EndOfStreamSeen =>
          /\ chunks = <<>>
          /\ reader.inflight = 0
          /\ Emitted = lineValues(split(body), outputSchema, validateOutput))
  /\ [][EndOfStreamSeen /\ ~consumer'.cancelled =>
          /\ reader'.reads = reader.reads
          /\ reader'.inflight = 0
          /\ consumer'.delivered \o stream'.queue = Emitted]_vars

C35_Witness ==
  /\ EndOfStreamSeen
  /\ consumer.done
  /\ buffer = DataPrefix \o <<"2">>
  /\ Len(consumer.delivered) = 1

\* the running or last attempt has returned a success
AttemptSucceeded ==
  pc \in {"attempted", "terminal", "done"} /\ lastResult.ok

\* C36: with a retry policy, the first successful attempt ends the retry
\* loop: no transport call, onRetry hook or sleep comes after it and the call
\* returns that success; a success on the first attempt means exactly one
\* transport call.
C36_SuccessEndsRetryLoop ==
  retry.present =>
    /\ \A n \in 1..(attempts - 1) :
         \E s \in DOMAIN log :
           /\ log[s].kind = "shouldRetry" /\ log[s].attempt = n
           /\ log[s].a2.type = "error" /\ log[s].a2.n = n
    /\ AttemptSucceeded =>
         /\ \A k \in DOMAIN log :
              log[k].kind \in {"shouldRetry", "onRetry", "sleep"} =>
                log[k].attempt < attempts
         /\ fetchCalls = attempts
         /\ Cardinality({k \in DOMAIN log : log[k].kind = "fetch"}) = attempts
         /\ lastResult.v.n = attempts
         /\ pc = "done" => result = lastResult

\* a call allowed two retries succeeds on its second attempt and returns
C36_Witness ==
  /\ retry.present /\ retry.times = 2
  /\ pc = "done" /\ result.ok
  /\ attempts = 2 /\ fetchCalls = 2

\* C37: if the consumer keeps pulling and the transport delivers every chunk
\* and then end-of-stream, every pull of the consumer eventually resolves,
\* with a value or with end-of-sequence, and the sequence eventually
\* finishes, also when some chunks yield no value.
C37_EveryPullResolves ==
  /\ (Consuming /\ stream.readRequests > 0) ~>
       (stream.readRequests = 0 \/ consumer.cancelled)
  /\ Consuming ~> (consumer.done \/ consumer.cancelled)

\* every answer shouldRetry has given is true
AlwaysRetry ==
  \A k \in DOMAIN log : log[k].kind = "shouldRetry" => log[k].a3 = Bool(TRUE)

\* C38: a backoff sleep is not interrupted by the caller's signal: a sleep
\* lasts its full delay and the next attempt is issued also when the signal
\* is aborted, so a call whose signal is aborted before its first transport
\* call and whose shouldRetry never refuses makes times + 1 attempts and
\* returns FetchError.
C38_SleepIgnoresAbort ==
  /\ \A k \in DOMAIN log :
       log[k].kind = "sleep" =>
         /\ log[k].ms = getRetryDelay(retry, log[k].attempt - 1)
         /\ \/ log[k].attempt < attempts
            \/ pc = "rejected"
  /\ (pc = "done" /\ retry.present /\ signal.aborted /\ signal.at = 0
        /\ AlwaysRetry) =>
       /\ attempts = (IF retry.times > 0 THEN retry.times ELSE 0) + 1
       /\ fetchCalls = attempts
       /\ Cardinality({k \in DOMAIN log : log[k].kind = "sleep"}) = attempts - 1
       /\ result = ResultErr(Error("FetchError", attempts))

C38_Witness ==
  /\ pc = "done" /\ retry.present /\ retry.times = 2
  /\ signal.aborted /\ signal.at = 0
  /\ attempts = 3
  /\ result = ResultErr(Error("FetchError", 3))

\* the delays a run has slept, in order
DelaysOf(l) == [k \in DOMAIN Entries(l, "sleep") |-> Entries(l, "sleep")[k].ms]

\* the errors a run has consulted shouldRetry with, in order: the kind of
\* error and the attempt that produced it
Consulted(l) ==
  [k \in DOMAIN Entries(l, "shouldRetry") |->
     <<Entries(l, "shouldRetry")[k].a2.tag,
       Entries(l, "shouldRetry")[k].attempt>>]

BothReturned == previous.done /\ pc = "withRetry.done"

\* C39: without plugins, executeWithPluginRetry and withRetry are the same
\* driver: under the same policy, attempt outcomes and shouldRetry answers
\* they make the same number of attempts, sleep the same delays in the same
\* order, consult shouldRetry with the same errors and return the same
\* result.
C39_DriversEquivalent ==
  BothReturned =>
    /\ attempts = previous.attempts
    /\ DelaysOf(log) = DelaysOf(previous.log)
    /\ Consulted(log) = Consulted(previous.log)
    /\ SameOutcome(previous.result, result)

C39_Witness ==
  /\ BothReturned
  /\ attempts = 3
  /\ Len(DelaysOf(log)) = 2
  /\ result.ok

====
